---- MODULE Spec2Model ----
(***************************************************************************)
(* DoubleKeyTable (src/double_key_table.py): an outer open-addressing      *)
(* table keyed by key1 whose occupied slots each hold a reference to an    *)
(* inner LinearProbeTable keyed by key2.                                   *)
(*                                                                         *)
(* Arrays are sequences; the Python position p is the sequence index p+1.  *)
(* Keys are strings, written as the sequence of their character codes.     *)
(* Inner tables are objects: the outer slot holds a reference (an id) into *)
(* the heap `tables`, so that moving a table differs from copying it.      *)
(***************************************************************************)
EXTENDS Integers, Sequences, FiniteSets

\* ---------------------------------------------------------------- bounds
MaxVal == 2
MaxSizeIndex == 2
\* the most mountains an organiser is given in all
MaxAdds == 4

\* the most series and splits of a trail that is walked
MaxWalkSize == 3

\* the most series and splits a trail is built to
MaxTrailSize == 3

\* ------------------------------------------------------------- constants
HASH_BASE == 31
HASH_SEED == 31415

\* -------------------------------------------------------------- inputs
\* "a", "h", "bo", "b"
K1Order == << <<97>>, <<104>>, <<98, 111>>, <<98>> >>
K1Keys == { K1Order[i] : i \in 1..Len(K1Order) }
\* "km", "mi", "x"
K2Keys == { <<107, 109>>, <<109, 105>>, <<120>> }
Values == 1..MaxVal
\* The runs: the size-class lists handed to the constructor (sizes,
\* internal_sizes) and the keys the calls of that run are made with.
Runs ==
    { [sizes |-> <<3>>, internal_sizes |-> <<3, 7>>,
       keys1 |-> K1Keys, keys2 |-> { <<107, 109>> }],
      [sizes |-> <<3, 7, 17>>, internal_sizes |-> <<3, 7>>,
       keys1 |-> K1Keys, keys2 |-> { <<107, 109>> }],
      [sizes |-> <<3, 7>>, internal_sizes |-> <<3, 7>>,
       keys1 |-> { <<97>>, <<104>> }, keys2 |-> { <<107, 109>>, <<109, 105>> }],
      [sizes |-> <<3, 7>>, internal_sizes |-> <<2>>,
       keys1 |-> { <<97>> }, keys2 |-> K2Keys] }

OK == "ok"
KeyError == "KeyError"
FullError == "FullError"
IndexError == "IndexError"

VARIABLES
    external_table_sizes,   \* self.external_table_sizes
    internal_table_sizes,   \* self.internal_table_sizes
    size_index,             \* self.size_index
    external_table_array,   \* self.external_table_array
    external_table_length,  \* self.external_table_length
    tables,                 \* the LinearProbeTable objects, by reference
    keys1, keys2,           \* the keys this run calls the table with
    shadow,                 \* the pairs set and not deleted since: <<value>>, or <<>>
    last,                   \* the last call and how it ended
    iht,                    \* the top InfiniteHashTable: self.level, self.table
    ikeys,                  \* the keys this run calls the InfiniteHashTable with
    ishadow,                \* the keys set and not deleted since: <<value>>, or <<>>
    ilast,                  \* the last InfiniteHashTable call and how it ended
    tstore,                 \* the trail store the trail calls are made on
    treceiver,              \* the object of the last trail call, as the call left it
    tlast,                  \* the last trail call and how it ended
    manager,                \* the MountainManager: self.mountains, self.difficulty_groups
    mlast,                  \* the last MountainManager call and how it ended
    trail,                  \* the store of the Trail the path calls are made on
    walk_store,             \* follow_path: the local store
    before_splitting,       \* follow_path: the stack before_splitting, top last
    personality,            \* the WalkerPersonality: mountains added, decisions made
    walk_pc,                \* where the caller of the trail is: idle, loop, returned
    walk_result,            \* the last path call that returned and its value
    mountain_list,          \* MountainOrganiser: self.mountain_list
    added,                  \* how often each mountain was given to add_mountains
    olast                   \* the list the last add_mountains call was given

dkt_vars == << external_table_sizes, internal_table_sizes, size_index,
               external_table_array, external_table_length, tables,
               keys1, keys2, shadow, last >>

iht_vars == << iht, ikeys, ishadow, ilast >>

trail_vars == << tstore, treceiver, tlast >>

mm_vars == << manager, mlast >>

walk_vars == << trail, walk_store, before_splitting, personality, walk_pc, walk_result >>

org_vars == << mountain_list, added, olast >>

vars == << dkt_vars, iht_vars, trail_vars, mm_vars, walk_vars, org_vars >>

\* the variables of the trail walks and of the organiser while they are not run
NoWalk ==
    /\ trail = <<>> /\ walk_store = <<>> /\ before_splitting = <<>>
    /\ personality = <<>> /\ walk_pc = "" /\ walk_result = <<>>

NoOrganiser == mountain_list = <<>> /\ added = <<>> /\ olast = <<>>

\* ------------------------------------------------------------ primitives
\* ArrayR(n): n slots holding None
NoneSlot == [used |-> FALSE, key |-> <<>>, tab |-> 0]
NoneItem == [used |-> FALSE, key |-> <<>>, val |-> 0]
ArrayR(n, none) == [i \in 1..n |-> none]
At(array, pos) == array[pos + 1]
Put(array, pos, x) == [array EXCEPT ![pos + 1] = x]

\* the loop of hash1 / hash2 from character i on
RECURSIVE HashFrom(_, _, _, _, _)
HashFrom(key, i, value, a, n) ==
    IF i > Len(key) THEN value
    ELSE HashFrom(key, i + 1, (key[i] + a * value) % n, (a * HASH_BASE) % (n - 1), n)

HashStr(key, n) == HashFrom(key, 1, 0, HASH_SEED, n)

\* ------------------------------------------------- hash2 of DoubleKeyTable
\* hash2(key, sub_table): the hash every inner table is given as its own
hash2(key, sub_table) == HashStr(key, Len(sub_table.array))

\* ------------------------------------------------------ LinearProbeTable
\* The single-key table the inner tables are instances of.
Result(position, error) == [pos |-> position, err |-> error]

FreeTable == [live |-> FALSE, size_index |-> 0, array |-> <<>>, count |-> 0]

\* LinearProbeTable(sizes)
LPT_New(sizes) ==
    [live |-> TRUE, size_index |-> 0, array |-> ArrayR(sizes[1], NoneItem), count |-> 0]

LPT_table_size(t) == Len(t.array)

RECURSIVE LPT_probe_from(_, _, _, _, _)
LPT_probe_from(t, key, is_insert, position, steps) ==
    IF steps = LPT_table_size(t)
    THEN Result(0, IF is_insert THEN FullError ELSE KeyError)
    ELSE LET item == At(t.array, position) IN
         IF ~item.used
         THEN (IF is_insert THEN Result(position, OK) ELSE Result(0, KeyError))
         ELSE IF item.key = key
         THEN Result(position, OK)
         ELSE LPT_probe_from(t, key, is_insert, (position + 1) % LPT_table_size(t), steps + 1)

\* _linear_probe(key, is_insert) -> position
LPT_linear_probe(t, key, is_insert) ==
    LPT_probe_from(t, key, is_insert, hash2(key, t), 0)

\* key in table
LPT_contains(t, key) == LPT_linear_probe(t, key, FALSE).err = OK

\* table[key]
LPT_getitem(t, key) ==
    LET r == LPT_linear_probe(t, key, FALSE) IN
    IF r.err # OK THEN [val |-> 0, err |-> r.err]
    ELSE [val |-> At(t.array, r.pos).val, err |-> OK]

\* len(table); a table with len 0 is falsy
LPT_len(t) == t.count

RECURSIVE LPT_setitem(_, _, _, _)
RECURSIVE LPT_reinsert(_, _, _, _)

\* the rehash loop: every item of the old array, in array order, set into t
LPT_reinsert(t, old_array, i, sizes) ==
    IF i > Len(old_array) THEN t
    ELSE IF ~old_array[i].used THEN LPT_reinsert(t, old_array, i + 1, sizes)
    ELSE LPT_reinsert(LPT_setitem(t, old_array[i].key, old_array[i].val, sizes).t,
                      old_array, i + 1, sizes)

\* grow to the next size class; nothing happens at the largest one
LPT_rehash(t, sizes) ==
    IF t.size_index + 1 >= Len(sizes) THEN t
    ELSE LPT_reinsert([live |-> TRUE, size_index |-> t.size_index + 1,
                       array |-> ArrayR(sizes[t.size_index + 2], NoneItem), count |-> 0],
                      t.array, 1, sizes)

\* table[key] = data
LPT_setitem(t, key, data, sizes) ==
    LET r == LPT_linear_probe(t, key, TRUE) IN
    IF r.err # OK THEN [t |-> t, err |-> r.err]
    ELSE LET count == IF At(t.array, r.pos).used THEN t.count ELSE t.count + 1
             written == [t EXCEPT !.count = count,
                                  !.array = Put(t.array, r.pos,
                                                [used |-> TRUE, key |-> key, val |-> data])]
         IN  [t |-> IF 2 * count > LPT_table_size(t) THEN LPT_rehash(written, sizes) ELSE written,
              err |-> OK]

\* the cluster repair of the single-key table
RECURSIVE LPT_repair(_, _)
LPT_repair(t, position) ==
    LET item == At(t.array, position) IN
    IF ~item.used THEN t
    ELSE LET cleared == [t EXCEPT !.array = Put(t.array, position, NoneItem)]
             newpos == LPT_linear_probe(cleared, item.key, TRUE).pos
         IN  LPT_repair([cleared EXCEPT !.array = Put(cleared.array, newpos, item)],
                        (position + 1) % LPT_table_size(t))

\* del table[key]
LPT_delitem(t, key) ==
    LET r == LPT_linear_probe(t, key, FALSE) IN
    IF r.err # OK THEN [t |-> t, err |-> r.err]
    ELSE [t |-> LPT_repair([t EXCEPT !.array = Put(t.array, r.pos, NoneItem),
                                     !.count = t.count - 1],
                           (r.pos + 1) % LPT_table_size(t)),
          err |-> OK]

RECURSIVE LPT_keys_from(_, _)
LPT_keys_from(array, i) ==
    IF i > Len(array) THEN <<>>
    ELSE (IF array[i].used THEN <<array[i].key>> ELSE <<>>) \o LPT_keys_from(array, i + 1)

\* table.keys(): the keys in array order
LPT_keys(t) == LPT_keys_from(t.array, 1)

RECURSIVE LPT_values_from(_, _)
LPT_values_from(array, i) ==
    IF i > Len(array) THEN <<>>
    ELSE (IF array[i].used THEN <<array[i].val>> ELSE <<>>) \o LPT_values_from(array, i + 1)

\* table.values(): the values in array order
LPT_values(t) == LPT_values_from(t.array, 1)

\* -------------------------------------------------------- DoubleKeyTable
\* The table as one value: d.array, d.length, d.size_index are the fields
\* external_table_array, external_table_length, size_index; d.tables is the
\* heap of inner tables the slots refer to.
TableRefs == 1..Cardinality(K1Keys)

\* A reference no live table has: the identity of a newly built object. Which
\* free reference it is does not matter; taking the one numbered like the key
\* when it is free keeps equal heaps from differing in their numbering only.
NewRef(heap, key1) ==
    LET own == CHOOSE i \in 1..Len(K1Order) : K1Order[i] = key1 IN
    IF ~heap[own].live THEN own
    ELSE CHOOSE r \in TableRefs : ~heap[r].live /\ \A q \in TableRefs : ~heap[q].live => r <= q

table_size(d) == Len(d.array)

hash1(d, key) == HashStr(key, table_size(d))

Probed(d, top, bottom, error) == [d |-> d, top |-> top, bottom |-> bottom, err |-> error]

RECURSIVE linear_probe_from(_, _, _, _, _, _, _)
linear_probe_from(d, isizes, key1, key2, is_insert, top_table_position, steps) ==
    IF steps = Len(d.array)
    THEN Probed(d, 0, 0, IF is_insert THEN FullError ELSE KeyError)
    ELSE LET current_table_entry == At(d.array, top_table_position) IN
         IF ~current_table_entry.used
         THEN IF is_insert
              THEN LET ref == NewRef(d.tables, key1)
                       new_table == LPT_New(isizes)
                       placed == [d EXCEPT !.tables = [d.tables EXCEPT ![ref] = new_table],
                                           !.array = Put(d.array, top_table_position,
                                                         [used |-> TRUE, key |-> key1, tab |-> ref])]
                       bottom == LPT_linear_probe(new_table, key2, TRUE)
                   IN  IF bottom.err # OK
                       THEN Probed(placed, 0, 0, bottom.err)
                       ELSE Probed([placed EXCEPT !.length = d.length + 1],
                                   top_table_position, bottom.pos, OK)
              ELSE Probed(d, 0, 0, KeyError)
         ELSE IF current_table_entry.key = key1
         THEN LET bottom_level_table == d.tables[current_table_entry.tab] IN
              IF LPT_contains(bottom_level_table, key2)
              THEN Probed(d, top_table_position,
                          LPT_linear_probe(bottom_level_table, key2, FALSE).pos, OK)
              ELSE IF is_insert
              THEN LET bottom == LPT_linear_probe(bottom_level_table, key2, TRUE) IN
                   IF bottom.err # OK THEN Probed(d, 0, 0, bottom.err)
                   ELSE Probed(d, top_table_position, bottom.pos, OK)
              ELSE Probed(d, 0, 0, KeyError)
         ELSE linear_probe_from(d, isizes, key1, key2, is_insert,
                                (top_table_position + 1) % table_size(d), steps + 1)

\* _linear_probe(key1, key2, is_insert) -> (top position, bottom position)
linear_probe(d, isizes, key1, key2, is_insert) ==
    linear_probe_from(d, isizes, key1, key2, is_insert, hash1(d, key1), 0)

RECURSIVE upper_probe_from(_, _, _)
upper_probe_from(d, position, start_position) ==
    IF ~At(d.array, position).used THEN Result(position, OK)
    ELSE LET next == (position + 1) % table_size(d) IN
         IF next = start_position THEN Result(0, FullError)
         ELSE upper_probe_from(d, next, start_position)

\* an insert position found without probing past the hash position
linear_probe_upper_table_unprobed(d, key) ==
    IF At(d.array, hash1(d, key)).used THEN Result(0, FullError)
    ELSE Result(hash1(d, key), OK)

\* _linear_probe_upper_table(key) -> position of the first empty slot
linear_probe_upper_table(d, key) ==
    upper_probe_from(d, hash1(d, key), hash1(d, key))

\* a lookup that probes as an insert does
getitem_probe_inserting(d, isizes, key1, key2) == linear_probe(d, isizes, key1, key2, TRUE)

\* the probe of __getitem__: positions, error and the table it leaves
getitem_probe(d, isizes, key1, key2) == linear_probe(d, isizes, key1, key2, FALSE)

\* self[key1, key2]
getitem(d, isizes, key1, key2) ==
    LET r == linear_probe(d, isizes, key1, key2, FALSE) IN
    IF r.err # OK THEN [val |-> 0, err |-> r.err]
    ELSE LPT_getitem(d.tables[At(d.array, r.top).tab], key2)

\* (key1, key2) in self
contains(d, isizes, key1, key2) == getitem(d, isizes, key1, key2).err # KeyError

\* a rehash loop that builds a new inner table with the same items for every
\* entry instead of moving the old one
RECURSIVE rehash_loop_copying(_, _, _)
rehash_loop_copying(d, old_upper_table, i) ==
    IF i > Len(old_upper_table) THEN [d |-> d, err |-> OK]
    ELSE IF ~old_upper_table[i].used THEN rehash_loop_copying(d, old_upper_table, i + 1)
    ELSE LET r == linear_probe_upper_table(d, old_upper_table[i].key)
             old == old_upper_table[i].tab
             free == { q \in TableRefs : ~d.tables[q].live }
             ref == IF free = {} THEN old ELSE CHOOSE q \in free : \A o \in free : q <= o
             heap == [q \in TableRefs |-> IF q = ref THEN d.tables[old]
                                          ELSE IF q = old THEN FreeTable
                                          ELSE d.tables[q]]
         IN  IF r.err # OK THEN [d |-> d, err |-> r.err]
             ELSE rehash_loop_copying(
                      [d EXCEPT !.array = Put(d.array, r.pos, [old_upper_table[i] EXCEPT !.tab = ref]),
                                !.tables = heap],
                      old_upper_table, i + 1)

\* the loop of _rehash over the old array
RECURSIVE rehash_loop(_, _, _)
rehash_loop(d, old_upper_table, i) ==
    IF i > Len(old_upper_table) THEN [d |-> d, err |-> OK]
    ELSE IF ~old_upper_table[i].used THEN rehash_loop(d, old_upper_table, i + 1)
    ELSE LET r == linear_probe_upper_table(d, old_upper_table[i].key) IN
         IF r.err # OK THEN [d |-> d, err |-> r.err]
         ELSE rehash_loop([d EXCEPT !.array = Put(d.array, r.pos, old_upper_table[i])],
                          old_upper_table, i + 1)

\* a rehash that counts every entry it moves as a new one
rehash_recounting(d, sizes) ==
    LET stepped == [d EXCEPT !.size_index = d.size_index + 1] IN
    IF stepped.size_index = Len(sizes) THEN [d |-> stepped, err |-> OK]
    ELSE IF stepped.size_index > Len(sizes) THEN [d |-> stepped, err |-> IndexError]
    ELSE rehash_loop([stepped EXCEPT !.array = ArrayR(sizes[stepped.size_index + 1], NoneSlot),
                                     !.length = d.length + d.length],
                     d.array, 1)

\* _rehash()
rehash(d, sizes) ==
    LET stepped == [d EXCEPT !.size_index = d.size_index + 1] IN
    IF stepped.size_index = Len(sizes) THEN [d |-> stepped, err |-> OK]
    ELSE IF stepped.size_index > Len(sizes) THEN [d |-> stepped, err |-> IndexError]
    ELSE rehash_loop([stepped EXCEPT !.array = ArrayR(sizes[stepped.size_index + 1], NoneSlot)],
                     d.array, 1)

\* the first half of __setitem__: locate the pair and write the value
setitem_write(d, isizes, key1, key2, data) ==
    LET r == linear_probe(d, isizes, key1, key2, TRUE) IN
    IF r.err # OK THEN [d |-> r.d, err |-> r.err]
    ELSE LET ref == At(r.d.array, r.top).tab
             w == LPT_setitem(r.d.tables[ref], key2, data, isizes)
         IN  IF w.err # OK THEN [d |-> r.d, err |-> w.err]
             ELSE [d |-> [r.d EXCEPT !.tables = [r.d.tables EXCEPT ![ref] = w.t]], err |-> OK]

\* a set that rehashes only once the outer table has no empty slot left
setitem_late(d, sizes, isizes, key1, key2, data) ==
    LET w == setitem_write(d, isizes, key1, key2, data) IN
    IF w.err # OK THEN w
    ELSE IF w.d.length >= table_size(w.d) THEN rehash(w.d, sizes)
    ELSE w

\* self[key1, key2] = data
setitem(d, sizes, isizes, key1, key2, data) ==
    LET w == setitem_write(d, isizes, key1, key2, data) IN
    IF w.err # OK THEN w
    ELSE IF 2 * w.d.length > table_size(w.d) THEN rehash(w.d, sizes)
    ELSE w

\* a cluster walk that leaves the cluster as it is
cluster_repair_skipped(d, top_table_position) == [d |-> d, err |-> OK]

\* the outcome of a cluster walk that has not reached an empty slot
Unfinished == "Unfinished"

\* the iterations a cluster walk is followed for
WalkCap(d) == table_size(d) * table_size(d)

\* a cluster walk that does not move on to the next slot (line 444 dropped)
RECURSIVE cluster_walk_not_advancing(_, _, _)
cluster_walk_not_advancing(d, top_table_position, steps) ==
    LET entry == At(d.array, top_table_position) IN
    IF ~entry.used THEN [d |-> d, err |-> OK]
    ELSE IF steps >= WalkCap(d) THEN [d |-> d, err |-> Unfinished]
    ELSE LET cleared == [d EXCEPT !.array = Put(d.array, top_table_position, NoneSlot)]
             r == linear_probe_upper_table(cleared, entry.key)
         IN  IF r.err # OK THEN [d |-> cleared, err |-> r.err]
             ELSE cluster_walk_not_advancing(
                      [cleared EXCEPT !.array = Put(cleared.array, r.pos, entry)],
                      top_table_position, steps + 1)

\* a cluster walk that reinserts an entry without clearing its slot first
\* (line 440 dropped)
RECURSIVE cluster_walk_copying(_, _, _)
cluster_walk_copying(d, top_table_position, steps) ==
    LET entry == At(d.array, top_table_position) IN
    IF ~entry.used THEN [d |-> d, err |-> OK]
    ELSE IF steps >= WalkCap(d) THEN [d |-> d, err |-> Unfinished]
    ELSE LET r == linear_probe_upper_table(d, entry.key)
         IN  IF r.err # OK THEN [d |-> d, err |-> r.err]
             ELSE cluster_walk_copying([d EXCEPT !.array = Put(d.array, r.pos, entry)],
                                       (top_table_position + 1) % table_size(d), steps + 1)

\* the while loop of __delitem__ (lines 438-444) from top_table_position on,
\* after `steps` iterations
RECURSIVE cluster_walk(_, _, _)
cluster_walk(d, top_table_position, steps) ==
    LET entry == At(d.array, top_table_position) IN
    IF ~entry.used THEN [d |-> d, err |-> OK]
    ELSE IF steps >= WalkCap(d) THEN [d |-> d, err |-> Unfinished]
    ELSE LET cleared == [d EXCEPT !.array = Put(d.array, top_table_position, NoneSlot)]
             r == linear_probe_upper_table(cleared, entry.key)
         IN  IF r.err # OK THEN [d |-> cleared, err |-> r.err]
             ELSE cluster_walk([cleared EXCEPT !.array = Put(cleared.array, r.pos, entry)],
                               (top_table_position + 1) % table_size(d), steps + 1)

\* the cluster walk of __delitem__ from top_table_position on
cluster_repair(d, top_table_position) == cluster_walk(d, top_table_position, 0)

\* a delete that keeps the outer slot of an inner table it has emptied
delitem_keeping(d, isizes, key1, key2) ==
    LET r == linear_probe(d, isizes, key1, key2, FALSE) IN
    IF r.err # OK THEN [d |-> d, err |-> r.err]
    ELSE IF ~contains(d, isizes, key1, key2) THEN [d |-> d, err |-> KeyError]
    ELSE LET ref == At(d.array, r.top).tab
             w == LPT_delitem(d.tables[ref], key2)
         IN  IF w.err # OK THEN [d |-> d, err |-> w.err]
             ELSE [d |-> [d EXCEPT !.tables = [d.tables EXCEPT ![ref] = w.t]], err |-> OK]

\* a delete that locates the pair as an insert does
delitem_inserting(d, isizes, key1, key2) ==
    LET r == linear_probe(d, isizes, key1, key2, TRUE) IN
    IF r.err # OK THEN [d |-> r.d, err |-> r.err]
    ELSE IF ~contains(r.d, isizes, key1, key2) THEN [d |-> r.d, err |-> KeyError]
    ELSE LET ref == At(d.array, r.top).tab
             w == LPT_delitem(d.tables[ref], key2)
             deleted == [d EXCEPT !.tables = [d.tables EXCEPT ![ref] = w.t]]
         IN  IF w.err # OK THEN [d |-> d, err |-> w.err]
             ELSE IF LPT_len(w.t) # 0 THEN [d |-> deleted, err |-> OK]
             ELSE cluster_repair([deleted EXCEPT !.array = Put(d.array, r.top, NoneSlot),
                                                 !.length = d.length - 1,
                                                 !.tables = [d.tables EXCEPT ![ref] = FreeTable]],
                                 (r.top + 1) % table_size(d))

\* a delete that clears the outer slot whether or not the inner table is
\* empty (the test of line 432 dropped)
delitem_clearing(d, isizes, key1, key2) ==
    LET r == linear_probe(d, isizes, key1, key2, FALSE) IN
    IF r.err # OK THEN [d |-> d, err |-> r.err]
    ELSE IF ~contains(d, isizes, key1, key2) THEN [d |-> d, err |-> KeyError]
    ELSE LET ref == At(d.array, r.top).tab
             w == LPT_delitem(d.tables[ref], key2)
             deleted == [d EXCEPT !.tables = [d.tables EXCEPT ![ref] = w.t]]
         IN  IF w.err # OK THEN [d |-> d, err |-> w.err]
             ELSE cluster_repair([deleted EXCEPT !.array = Put(d.array, r.top, NoneSlot),
                                                 !.length = d.length - 1,
                                                 !.tables = [d.tables EXCEPT ![ref] = FreeTable]],
                                 (r.top + 1) % table_size(d))

\* del self[key1, key2]
delitem(d, isizes, key1, key2) ==
    LET r == linear_probe(d, isizes, key1, key2, FALSE) IN
    IF r.err # OK THEN [d |-> d, err |-> r.err]
    ELSE IF ~contains(d, isizes, key1, key2) THEN [d |-> d, err |-> KeyError]
    ELSE LET ref == At(d.array, r.top).tab
             w == LPT_delitem(d.tables[ref], key2)
             deleted == [d EXCEPT !.tables = [d.tables EXCEPT ![ref] = w.t]]
         IN  IF w.err # OK THEN [d |-> d, err |-> w.err]
             ELSE IF LPT_len(w.t) # 0 THEN [d |-> deleted, err |-> OK]
             ELSE cluster_repair([deleted EXCEPT !.array = Put(d.array, r.top, NoneSlot),
                                                 !.length = d.length - 1,
                                                 !.tables = [d.tables EXCEPT ![ref] = FreeTable]],
                                 (r.top + 1) % table_size(d))

\* the scan of keys(key) / values(key) for the slot of key: -1 when not found
RECURSIVE key_position_from(_, _, _)
key_position_from(d, key, i) ==
    IF i >= Len(d.array) THEN -1
    ELSE IF At(d.array, i).used /\ At(d.array, i).key = key THEN i
    ELSE key_position_from(d, key, i + 1)

key_position_outer_table(d, key) == key_position_from(d, key, hash1(d, key))

RECURSIVE top_level_keys_from(_, _)
top_level_keys_from(array, i) ==
    IF i > Len(array) THEN <<>>
    ELSE (IF array[i].used THEN <<array[i].key>> ELSE <<>>) \o top_level_keys_from(array, i + 1)

\* keys(None) with the scan started one slot late
keys_all_from_second_slot(d) == top_level_keys_from(d.array, 2)

\* keys(None)
keys_all(d) == top_level_keys_from(d.array, 1)

\* keys(key1)
keys_of(d, key) ==
    LET p == key_position_outer_table(d, key) IN
    IF p = -1 THEN [val |-> <<>>, err |-> KeyError]
    ELSE [val |-> LPT_keys(d.tables[At(d.array, p).tab]), err |-> OK]

RECURSIVE all_values_from(_, _)
all_values_from(d, i) ==
    IF i > Len(d.array) THEN <<>>
    ELSE (IF d.array[i].used THEN LPT_values(d.tables[d.array[i].tab]) ELSE <<>>)
         \o all_values_from(d, i + 1)

\* values(None)
values_all(d) == all_values_from(d, 1)

\* values(key1)
values_of(d, key) ==
    LET p == key_position_outer_table(d, key) IN
    IF p = -1 THEN [val |-> <<>>, err |-> KeyError]
    ELSE [val |-> LPT_values(d.tables[At(d.array, p).tab]), err |-> OK]

RECURSIVE len_from(_, _)
len_from(d, i) ==
    IF i > Len(d.array) THEN 0
    ELSE (IF d.array[i].used THEN LPT_len(d.tables[d.array[i].tab]) ELSE 0) + len_from(d, i + 1)

\* len(self)
len(d) == len_from(d, 1)

\* ------------------------------------------------------------ the system
\* the table in the current state
D == [array |-> external_table_array, length |-> external_table_length,
      size_index |-> size_index, tables |-> tables]

Absent == <<>>
Pairs == K1Keys \X K2Keys

\* what a call did to the outer table: "grew" and "same" are a rehash that
\* changed the capacity and one that did not, "cleared" a slot set to None
EffectOf(before, after) ==
    IF after.size_index # before.size_index
    THEN (IF Len(after.array) # Len(before.array) THEN "grew" ELSE "same")
    ELSE IF after.length < before.length THEN "cleared"
    ELSE "none"

Init ==
    /\ \E run \in Runs :
          /\ external_table_sizes = run.sizes
          /\ internal_table_sizes = run.internal_sizes
          /\ keys1 = run.keys1
          /\ keys2 = run.keys2
    /\ size_index = 0
    /\ external_table_array = ArrayR(external_table_sizes[1], NoneSlot)
    /\ external_table_length = 0
    /\ tables = [r \in TableRefs |-> FreeTable]
    /\ shadow = [p \in Pairs |-> Absent]
    /\ last = [op |-> "init", err |-> OK, effect |-> "none"]
    /\ iht = <<>> /\ ikeys = {} /\ ishadow = <<>> /\ ilast = <<>>
    /\ tstore = <<>> /\ treceiver = <<>> /\ tlast = <<>>
    /\ manager = <<>> /\ mlast = <<>>
    /\ NoWalk /\ NoOrganiser

Become(d) ==
    /\ external_table_array' = d.array
    /\ external_table_length' = d.length
    /\ size_index' = d.size_index
    /\ tables' = d.tables
    /\ UNCHANGED << external_table_sizes, internal_table_sizes, keys1, keys2 >>
    /\ UNCHANGED << iht_vars, trail_vars, mm_vars, walk_vars, org_vars >>

\* table[key1, key2] = data
Set(key1, key2, data) ==
    LET r == setitem(D, external_table_sizes, internal_table_sizes, key1, key2, data) IN
    /\ r.d.size_index <= MaxSizeIndex
    /\ Become(r.d)
    /\ shadow' = IF r.err = OK THEN [shadow EXCEPT ![<<key1, key2>>] = <<data>>] ELSE shadow
    /\ last' = [op |-> "set", err |-> r.err, effect |-> EffectOf(D, r.d)]

\* del table[key1, key2]
Delete(key1, key2) ==
    LET r == delitem(D, internal_table_sizes, key1, key2) IN
    /\ Become(r.d)
    /\ shadow' = IF r.err = OK THEN [shadow EXCEPT ![<<key1, key2>>] = Absent] ELSE shadow
    /\ last' = [op |-> "delete", err |-> r.err, effect |-> EffectOf(D, r.d)]

Next ==
    \/ \E key1 \in keys1, key2 \in keys2, data \in Values : Set(key1, key2, data)
    \/ \E key1 \in keys1, key2 \in keys2 : Delete(key1, key2)

Spec == Init /\ [][Next]_vars

TypeOK ==
    /\ size_index \in 0..MaxSizeIndex
    /\ external_table_length \in 0..Len(external_table_array)

\* ------------------------------------------------------------ properties
Get(d, p) == getitem(d, internal_table_sizes, p[1], p[2])

\* the pairs the calls of this run are made with
RunPairs == keys1 \X keys2

\* the outer positions holding key1
SlotsOf(d, key1) == { i \in 0..(table_size(d) - 1) : At(d.array, i).used /\ At(d.array, i).key = key1 }

\* the table has reached the largest size class of its list
AtLargest(d) == table_size(d) = external_table_sizes[Len(external_table_sizes)]

\* C1: the table is a map on pairs: get returns the value of the most recent
\* set of the pair when it was set and not deleted since, and fails with
\* KeyError otherwise.
C1_MapOnPairs ==
    \A p \in RunPairs :
        IF shadow[p] # Absent
        THEN Get(D, p) = [val |-> shadow[p][1], err |-> OK]
        ELSE Get(D, p).err = KeyError

\* the slots a probe for key1 passes before it reaches position i
ProbePath(d, key1, i) ==
    { (hash1(d, key1) + n) % table_size(d) :
        n \in 0..(((i - hash1(d, key1)) % table_size(d)) - 1) }

\* C2: cluster integrity: no empty slot lies between the hash start position of
\* a first-level key and the slot holding it.
C2_ClusterIntegrity ==
    \A i \in 0..(table_size(D) - 1) :
        At(D.array, i).used =>
            \A j \in ProbePath(D, At(D.array, i).key, i) : At(D.array, j).used

\* a delete has cleared a slot and its cluster repair left a key behind another one
C2_Witness ==
    /\ last.op = "delete" /\ last.effect = "cleared"
    /\ \E i \in 0..(table_size(D) - 1) :
          At(D.array, i).used /\ i # hash1(D, At(D.array, i).key)

\* a list as the bag of its elements
BagOf(list) ==
    [x \in { list[i] : i \in DOMAIN list } |-> Cardinality({ i \in DOMAIN list : list[i] = x })]

\* what get, keys(None), values(None) and len show of the table
Observed(d) ==
    [get |-> [p \in RunPairs |-> Get(d, p)],
     keys |-> BagOf(keys_all(d)),
     values |-> BagOf(values_all(d)),
     len |-> len(d)]

\* the inner table (by reference) each first-level key has
RefOf(d) == [key1 \in keys1 |-> { At(d.array, i).tab : i \in SlotsOf(d, key1) }]

C4_ScopedEnumeration ==
    \A key1 \in keys1 :
        LET stored == { key2 \in keys2 : Get(D, <<key1, key2>>).err = OK }
            value(key2) == Get(D, <<key1, key2>>).val
        IN  IF stored # {}
            THEN /\ keys_of(D, key1).err = OK
                 /\ BagOf(keys_of(D, key1).val) = [key2 \in stored |-> 1]
                 /\ values_of(D, key1).err = OK
                 /\ BagOf(values_of(D, key1).val) =
                        [v \in { value(key2) : key2 \in stored } |->
                            Cardinality({ key2 \in stored : value(key2) = v })]
            ELSE /\ keys_of(D, key1).err = KeyError
                 /\ values_of(D, key1).err = KeyError

\* C5: at the largest size class a triggered outer rehash raises nothing, the
\* first time and every later time.
C5_RehashNoOpAtLargest ==
    (last.op = "set" /\ last.effect = "same") => last.err = OK

\* C6: every call completes normally or fails with KeyError or FullError.
C6_OnlyKeyErrorOrFullError ==
    /\ last.err \in {OK, KeyError, FullError}
    /\ \A p \in RunPairs : Get(D, p).err \in {OK, KeyError, FullError}
    /\ \A key1 \in keys1 : /\ keys_of(D, key1).err \in {OK, KeyError, FullError}
                            /\ values_of(D, key1).err \in {OK, KeyError, FullError}

\* every outer slot is occupied by a first-level key other than key1, at the largest size class
OuterFullFor(d, key1) ==
    /\ AtLargest(d)
    /\ \A i \in 0..(table_size(d) - 1) : At(d.array, i).used /\ At(d.array, i).key # key1

\* the inner table of key1 is at its largest size class and every slot of it
\* is occupied by a second-level key other than key2
InnerFullFor(d, key1, key2) ==
    \E i \in SlotsOf(d, key1) :
        LET t == d.tables[At(d.array, i).tab] IN
        /\ LPT_table_size(t) = internal_table_sizes[Len(internal_table_sizes)]
        /\ \A j \in 0..(LPT_table_size(t) - 1) : At(t.array, j).used /\ At(t.array, j).key # key2

\* C7 as stated: FullError comes from a set only, and only when the outer table
\* is at its largest size class with every slot occupied by another key.
C7_FullOnlyWhenOuterFull ==
    [][/\ last'.err = FullError => last'.op = "set"
       /\ \A p \in RunPairs : Get(D', p).err # FullError
       /\ \A key1 \in keys1, key2 \in keys2, data \in Values :
             (last'.err = FullError /\ Set(key1, key2, data)) => OuterFullFor(D, key1)]_vars

\* C7 (amended): FullError comes from a set only, and only when the outer table
\* is full of other first-level keys at its largest size class or the inner
\* table of key1 is full of other second-level keys at its largest size class.
C7_FullOnlyWhenATableIsFull ==
    [][/\ last'.err = FullError => last'.op = "set"
       /\ \A p \in RunPairs : Get(D', p).err # FullError
       /\ \A key1 \in keys1, key2 \in keys2, data \in Values :
             (last'.err = FullError /\ Set(key1, key2, data)) =>
                 (OuterFullFor(D, key1) \/ InnerFullFor(D, key1, key2))]_vars

\* a set has just failed with FullError
C7_Witness == last.op = "set" /\ last.err = FullError

\* C8: every occupied outer slot holds an inner table with at least one entry,
\* and a first-level key left without entries has no outer slot.
C8_InnerNonEmpty ==
    /\ \A i \in 0..(table_size(D) - 1) :
          At(D.array, i).used =>
              /\ tables[At(D.array, i).tab].live
              /\ LPT_len(tables[At(D.array, i).tab]) >= 1
              /\ LPT_keys(tables[At(D.array, i).tab]) # <<>>
    /\ \A key1 \in keys1 :
          (\A key2 \in keys2 : Get(D, <<key1, key2>>).err = KeyError) => SlotsOf(D, key1) = {}

\* a delete has just removed the last second-level key of a first-level key,
\* while other first-level keys remain
C8_Witness ==
    /\ last.op = "delete" /\ last.err = OK /\ last.effect = "cleared"
    /\ external_table_length >= 1

Occupied(d) == Cardinality({ i \in 0..(table_size(d) - 1) : At(d.array, i).used })

\* C9: after a set that returned normally the occupied outer slots are at most
\* half the capacity, unless the table is at its largest size class.
C9_HalfFull ==
    (last.op = "set" /\ last.err = OK /\ ~AtLargest(D)) => 2 * Occupied(D) <= table_size(D)

\* a set has just grown the outer table to a size class that is not the largest
C9_Witness ==
    /\ last.op = "set" /\ last.err = OK /\ last.effect = "grew"
    /\ ~AtLargest(D)

\* C10: a delete of a pair that is not in the table fails with KeyError and
\* leaves the outer array, the occupancy count and every inner table unchanged.
C10_FailedDeleteChangesNothing ==
    [][\A key1 \in keys1, key2 \in keys2 :
          (last'.op = "delete" /\ Get(D, <<key1, key2>>).err # OK /\ Delete(key1, key2)) =>
              /\ last'.err = KeyError
              /\ UNCHANGED << external_table_array, external_table_length, tables, size_index >>]_vars

\* a delete has just failed with KeyError on a table that holds other pairs
C10_Witness ==
    /\ last.op = "delete" /\ last.err = KeyError
    /\ external_table_length >= 1

\* C11: len() is the number of distinct pairs that were set and not deleted
\* since; setting a stored pair again therefore leaves it unchanged.
C11_LenCountsPairs == len(D) = Cardinality({ p \in RunPairs : shadow[p] # Absent })

\* the pairs get finds in the table
StoredPairs(d) == { p \in RunPairs : Get(d, p).err = OK }

\* C12: keys(None) lists every first-level key that has at least one entry
\* exactly once, and values(None) lists the value of every stored pair exactly
\* once.
C12_FullEnumeration ==
    LET stored == StoredPairs(D)
        value(p) == Get(D, p).val
    IN  /\ BagOf(keys_all(D)) = [key1 \in { p[1] : p \in stored } |-> 1]
        /\ BagOf(values_all(D)) =
               [v \in { value(p) : p \in stored } |->
                   Cardinality({ p \in stored : value(p) = v })]
        /\ Len(values_all(D)) = Cardinality(stored)

\* two first-level keys are stored, one of them with two entries, and the
\* first slot of the outer array is in use
C12_Witness ==
    /\ external_table_length >= 2
    /\ Cardinality(StoredPairs(D)) >= 3
    /\ At(D.array, 0).used

\* ===========================================================================
\* InfiniteHashTable (src/infinite_hash_table.py): a table of TABLE_SIZE slots
\* indexed by one character of the key; a slot holds None, a (key, value)
\* leaf, or a nested InfiniteHashTable of the next level.
\* ===========================================================================
TABLE_SIZE == 27

RecursionError == "RecursionError"

\* "a", "ab", "abc", "ahb", "b": lower-case keys sharing prefixes
\* "", "a", "G", "ab", "Gc": 'G' (71) and 'a' (97) are congruent modulo 26
IHTRuns ==
    { { <<97>>, <<97, 98>>, <<97, 98, 99>>, <<97, 104, 98>>, <<98>> },
      { <<>>, <<97>>, <<71>>, <<97, 98>>, <<71, 99>> } }
IHTKeys == UNION IHTRuns

\* a slot of self.table: None, a (key, value) tuple, or a nested table, whose
\* fields level and table are kept in the slot
NoneEntry == [kind |-> "none", key |-> <<>>, value |-> 0, level |-> 0, table |-> <<>>]
Leaf(key, value) == [kind |-> "leaf", key |-> key, value |-> value, level |-> 0, table |-> <<>>]
Nested(t) == [kind |-> "table", key |-> <<>>, value |-> 0, level |-> t.level, table |-> t.table]
TableOf(entry) == [level |-> entry.level, table |-> entry.table]

\* InfiniteHashTable(level)
IHT_New(level) == [level |-> level, table |-> ArrayR(TABLE_SIZE, NoneEntry)]

\* a hash that gives an exhausted key the first index instead of the last
hash_exhausted_first(level, key) ==
    IF level < Len(key) THEN key[level + 1] % (TABLE_SIZE - 1) ELSE 0

\* a hash that takes the character modulo the full table size
hash_full_width(level, key) ==
    IF level < Len(key) THEN key[level + 1] % TABLE_SIZE ELSE TABLE_SIZE - 1

\* self.hash(key) of a table of the given level
iht_hash(level, key) ==
    IF level < Len(key) THEN key[level + 1] % (TABLE_SIZE - 1) ELSE TABLE_SIZE - 1

\* self[key]
RECURSIVE iht_getitem(_, _)
iht_getitem(t, key) ==
    LET index == iht_hash(t.level, key)
        entry == At(t.table, index)
    IN  IF entry.kind = "table" THEN iht_getitem(TableOf(entry), key)
        ELSE IF entry.kind = "leaf" /\ entry.key = key THEN [val |-> entry.value, err |-> OK]
        ELSE [val |-> 0, err |-> KeyError]

\* Two keys that hash alike at every level from `level` on: beyond the end of
\* both every level gives TABLE_SIZE - 1, so the recursion of line 102 nests
\* a new table for ever and the interpreter ends it with RecursionError.
Diverges(level, key, other) ==
    \A l \in level..(IF Len(key) > Len(other) THEN Len(key) ELSE Len(other)) :
        iht_hash(l, key) = iht_hash(l, other)

\* an overwrite that keeps the stored tuple
overwritten_keeping(entry, key, value) == entry

\* the tuple an overwrite stores (line 97)
overwritten(entry, key, value) == Leaf(key, value)

\* self[key] = value
RECURSIVE iht_setitem(_, _, _)
iht_setitem(t, key, value) ==
    LET index == iht_hash(t.level, key)
        entry == At(t.table, index)
        store(x) == [t EXCEPT !.table = Put(t.table, index, x)]
    IN  IF entry.kind = "none" THEN [t |-> store(Leaf(key, value)), err |-> OK]
        ELSE IF entry.kind = "table"
        THEN LET r == iht_setitem(TableOf(entry), key, value)
             IN  [t |-> store(Nested(r.t)), err |-> r.err]
        ELSE IF entry.key = key THEN [t |-> store(overwritten(entry, key, value)), err |-> OK]
        ELSE IF Diverges(t.level + 1, entry.key, key) THEN [t |-> t, err |-> RecursionError]
        ELSE LET sub_table == IHT_New(t.level + 1)
                 first == iht_setitem(sub_table, entry.key, entry.value)
                 second == iht_setitem(first.t, key, value)
             IN  [t |-> store(Nested(second.t)), err |-> second.err]

\* a count that takes a nested table for one item
RECURSIVE len_from_counting_tables(_, _)
len_from_counting_tables(table, i) ==
    IF i > Len(table) THEN 0
    ELSE (IF table[i].kind = "none" THEN 0 ELSE 1) + len_from_counting_tables(table, i + 1)

\* len(self)
RECURSIVE iht_len_from(_, _)
iht_len_from(table, i) ==
    IF i > Len(table) THEN 0
    ELSE (IF table[i].kind = "none" THEN 0
          ELSE IF table[i].kind = "table" THEN iht_len_from(table[i].table, 1)
          ELSE 1) + iht_len_from(table, i + 1)

iht_len(t) == iht_len_from(t.table, 1)

\* self.items()
RECURSIVE iht_items_from(_, _)
iht_items_from(table, i) ==
    IF i > Len(table) THEN <<>>
    ELSE (IF table[i].kind = "table" THEN iht_items_from(table[i].table, 1)
          ELSE IF table[i].kind = "leaf" THEN << <<table[i].key, table[i].value>> >>
          ELSE <<>>) \o iht_items_from(table, i + 1)

iht_items(t) == iht_items_from(t.table, 1)

\* what a slot holds after a delete inside its nested table, with a single
\* remaining item dropped instead of elevated
after_nested_delete_dropping(sub) ==
    IF iht_len(sub) <= 1 THEN NoneEntry ELSE Nested(sub)

\* what a slot holds after a delete inside its nested table, without the
\* elevation of a single remaining item
after_nested_delete_unelevated(sub) ==
    IF iht_len(sub) = 0 THEN NoneEntry ELSE Nested(sub)

\* what a slot holds after a delete inside its nested table when the nested
\* table is always kept in place
after_nested_delete_kept(sub) == Nested(sub)

\* what a slot holds after a delete inside its nested table (lines 126-131)
after_nested_delete(sub) ==
    IF iht_len(sub) = 1
    THEN Leaf(iht_items(sub)[1][1], iht_items(sub)[1][2])
    ELSE IF iht_len(sub) = 0 THEN NoneEntry
    ELSE Nested(sub)

\* a delete that clears a leaf without comparing its key (line 135 dropped)
RECURSIVE delitem_any_leaf(_, _)
delitem_any_leaf(t, key) ==
    LET index == iht_hash(t.level, key)
        entry == At(t.table, index)
        store(x) == [t EXCEPT !.table = Put(t.table, index, x)]
    IN  IF entry.kind = "none" THEN [t |-> t, err |-> KeyError]
        ELSE IF entry.kind = "table"
        THEN LET r == delitem_any_leaf(TableOf(entry), key)
             IN  IF r.err # OK THEN [t |-> t, err |-> r.err]
                 ELSE [t |-> store(after_nested_delete(r.t)), err |-> OK]
        ELSE [t |-> store(NoneEntry), err |-> OK]

\* del self[key]
RECURSIVE iht_delitem(_, _)
iht_delitem(t, key) ==
    LET index == iht_hash(t.level, key)
        entry == At(t.table, index)
        store(x) == [t EXCEPT !.table = Put(t.table, index, x)]
    IN  IF entry.kind = "none" THEN [t |-> t, err |-> KeyError]
        ELSE IF entry.kind = "table"
        THEN LET r == iht_delitem(TableOf(entry), key)
             IN  IF r.err # OK THEN [t |-> t, err |-> r.err]
                 ELSE [t |-> store(after_nested_delete(r.t)), err |-> OK]
        ELSE IF entry.key = key THEN [t |-> store(NoneEntry), err |-> OK]
        ELSE [t |-> t, err |-> KeyError]

\* self.get_location(key)
RECURSIVE iht_get_location(_, _)
iht_get_location(t, key) ==
    LET index == iht_hash(t.level, key)
        entry == At(t.table, index)
    IN  IF entry.kind = "none" THEN [val |-> <<>>, err |-> KeyError]
        ELSE IF entry.kind = "table"
        THEN LET r == iht_get_location(TableOf(entry), key)
             IN  IF r.err # OK THEN r ELSE [val |-> <<index>> \o r.val, err |-> OK]
        ELSE IF entry.key = key THEN [val |-> <<index>>, err |-> OK]
        ELSE [val |-> <<>>, err |-> KeyError]

\* a <= b on strings: by character code, a proper prefix first
RECURSIVE str_le_from(_, _, _)
str_le_from(a, b, i) ==
    IF i > Len(a) THEN TRUE
    ELSE IF i > Len(b) THEN FALSE
    ELSE IF a[i] # b[i] THEN a[i] < b[i]
    ELSE str_le_from(a, b, i + 1)

str_le(a, b) == str_le_from(a, b, 1)

\* algorithms.mergesort: a stable merge sort
RECURSIVE merge(_, _)
merge(l1, l2) ==
    IF l1 = <<>> THEN l2
    ELSE IF l2 = <<>> THEN l1
    ELSE IF str_le(Head(l1), Head(l2)) THEN <<Head(l1)>> \o merge(Tail(l1), l2)
    ELSE <<Head(l2)>> \o merge(l1, Tail(l2))

RECURSIVE mergesort(_)
mergesort(l) ==
    IF Len(l) <= 1 THEN l
    ELSE LET break_index == (Len(l) + 1) \div 2
         IN  merge(mergesort(SubSeq(l, 1, break_index)),
                   mergesort(SubSeq(l, break_index + 1, Len(l))))

\* self.sort_keys()
RECURSIVE iht_sort_keys(_)

\* the keys list of sort_keys before it is sorted (lines 211-216)
RECURSIVE collected_keys_from(_, _)
collected_keys_from(table, i) ==
    IF i > Len(table) THEN <<>>
    ELSE (IF table[i].kind = "table" THEN iht_sort_keys(TableOf(table[i]))
          ELSE IF table[i].kind = "leaf" THEN <<table[i].key>>
          ELSE <<>>) \o collected_keys_from(table, i + 1)

\* sort_keys without the sort of line 217
sort_keys_unsorted(t) == collected_keys_from(t.table, 1)

iht_sort_keys(t) == mergesort(collected_keys_from(t.table, 1))

\* the nested tables reachable from a table
RECURSIVE nested_tables_from(_, _)
nested_tables_from(table, i) ==
    IF i > Len(table) THEN {}
    ELSE (IF table[i].kind = "table"
          THEN { TableOf(table[i]) } \cup nested_tables_from(table[i].table, 1)
          ELSE {}) \cup nested_tables_from(table, i + 1)

NestedTables(t) == nested_tables_from(t.table, 1)

\* ------------------------------------------------- the system of one table
InitIHT ==
    /\ iht = IHT_New(0)
    /\ ikeys \in IHTRuns
    /\ ishadow = [key \in IHTKeys |-> Absent]
    /\ ilast = [op |-> "init", err |-> OK, nested |-> 0]
    /\ external_table_sizes = <<>> /\ internal_table_sizes = <<>>
    /\ size_index = 0 /\ external_table_array = <<>> /\ external_table_length = 0
    /\ tables = <<>> /\ keys1 = {} /\ keys2 = {} /\ shadow = <<>> /\ last = <<>>
    /\ tstore = <<>> /\ treceiver = <<>> /\ tlast = <<>>
    /\ manager = <<>> /\ mlast = <<>>
    /\ NoWalk /\ NoOrganiser

\* the call has left table t; nested is the change in the number of nested tables
IHT_Become(t, op, err) ==
    /\ iht' = t
    /\ ilast' = [op |-> op, err |-> err,
                 nested |-> Cardinality(NestedTables(t)) - Cardinality(NestedTables(iht))]
    /\ UNCHANGED ikeys
    /\ UNCHANGED << dkt_vars, trail_vars, mm_vars, walk_vars, org_vars >>

\* table[key] = value
IHT_Set(key, value) ==
    LET r == iht_setitem(iht, key, value) IN
    /\ IHT_Become(r.t, "set", r.err)
    /\ ishadow' = IF r.err = OK THEN [ishadow EXCEPT ![key] = <<value>>] ELSE ishadow

\* del table[key]
IHT_Delete(key) ==
    LET r == iht_delitem(iht, key) IN
    /\ IHT_Become(r.t, "delete", r.err)
    /\ ishadow' = IF r.err = OK THEN [ishadow EXCEPT ![key] = Absent] ELSE ishadow

NextIHT ==
    \/ \E key \in ikeys, value \in Values : IHT_Set(key, value)
    \/ \E key \in ikeys : IHT_Delete(key)

SpecIHT == InitIHT /\ [][NextIHT]_vars

\* -------------------------------------------------------------- properties
\* the keys get finds in the table
StoredKeys(t) == { key \in ikeys : iht_getitem(t, key).err = OK }

\* C13: the table is a map on string keys: get returns the value of the most
\* recent set of the key when it was set and not deleted since, and fails with
\* KeyError otherwise.
C13_MapOnKeys ==
    \A key \in ikeys :
        IF ishadow[key] # Absent
        THEN iht_getitem(iht, key) = [val |-> ishadow[key][1], err |-> OK]
        ELSE iht_getitem(iht, key).err = KeyError

\* a key overwritten to the second value inside a nested table, after a delete
\* has collapsed another nested table
C13_Witness ==
    /\ \E key \in ikeys :
          /\ ishadow[key] = <<2>>
          /\ Len(iht_get_location(iht, key).val) >= 2
    /\ iht_len(iht) >= 3
    /\ ilast.op = "delete" /\ ilast.err = OK /\ ilast.nested < 0

Location(t, key) == iht_get_location(t, key)

\* C14: trie depth bound: every stored key of length L has a get_location of
\* length at most L + 1.
C14_DepthBound ==
    \A key \in StoredKeys(iht) :
        /\ Location(iht, key).err = OK
        /\ Len(Location(iht, key).val) <= Len(key) + 1

\* a stored key sits as deep as the bound allows, below the top table, in a
\* table that was reached by a delete
C14_Witness ==
    /\ \E key \in StoredKeys(iht) :
          /\ Len(key) >= 1
          /\ Len(Location(iht, key).val) = Len(key) + 1
    /\ ilast.op = "delete" /\ ilast.err = OK

\* the table a path of slot indices leads to
RECURSIVE TableAt(_, _)
TableAt(t, path) ==
    IF path = <<>> THEN t
    ELSE TableAt(TableOf(At(t.table, Head(path))), Tail(path))

\* the table holding the leaf of a stored key
HomeTable(t, key) ==
    LET loc == Location(t, key).val IN TableAt(t, SubSeq(loc, 1, Len(loc) - 1))

\* the number of leading levels at which two keys hash to the same slot
RECURSIVE SharedLevels(_, _, _)
SharedLevels(key, other, l) ==
    IF l > Len(key) /\ l > Len(other) THEN l
    ELSE IF iht_hash(l, key) = iht_hash(l, other) THEN SharedLevels(key, other, l + 1)
    ELSE l

\* the depth at which a key no longer collides with any of the others
FreeDepth(key, others) ==
    LET shared == { SharedLevels(key, other, 0) : other \in others \ {key} }
    IN  IF shared = {} THEN 1
        ELSE 1 + (CHOOSE n \in shared : \A m \in shared : m <= n)

\* the key is stored in a nested table that holds exactly two keys
InPairTable(t, key) ==
    /\ Location(t, key).err = OK
    /\ Len(Location(t, key).val) >= 2
    /\ iht_len(HomeTable(t, key)) = 2

\* C15: collapse: deleting one of the two keys of a nested table leaves the
\* survivor, with its value, as a leaf at the highest level where it collides
\* with no other stored key (on the path it had), and len() drops by one.
C15_Collapse ==
    [][\A key \in ikeys :
          (ilast'.op = "delete" /\ InPairTable(iht, key) /\ IHT_Delete(key)) =>
              LET home == HomeTable(iht, key)
                  survivor == CHOOSE k \in ikeys :
                                  k # key /\ \E i \in 1..2 : iht_items(home)[i][1] = k
                  before == Location(iht, survivor).val
                  after == Location(iht', survivor)
              IN  /\ ilast'.err = OK
                  /\ iht_len(iht') = iht_len(iht) - 1
                  /\ after.err = OK
                  /\ Len(after.val) < Len(before)
                  /\ after.val = SubSeq(before, 1, FreeDepth(survivor, StoredKeys(iht')))
                  /\ iht_getitem(iht', survivor) = iht_getitem(iht, survivor)
                  /\ iht_getitem(iht', key).err = KeyError]_vars

\* a delete has just collapsed two nested tables, one inside the other
C15_Witness ==
    /\ ilast.op = "delete" /\ ilast.err = OK /\ ilast.nested <= -2
    /\ iht_len(iht) >= 1

\* C16: all leaves in or below a nested table of level d have keys that
\* agree in their first d characters.
C16_SharedPrefix ==
    \A n \in NestedTables(iht) :
        \A i, j \in 1..iht_len(n) :
            LET a == iht_items(n)[i][1]
                b == iht_items(n)[j][1]
            IN  /\ Len(a) >= n.level
                /\ SubSeq(a, 1, n.level) = SubSeq(b, 1, n.level)

\* C17: every nested table reachable from the top table holds at least two
\* entries.
C17_NestedHoldTwo == \A n \in NestedTables(iht) : iht_len(n) >= 2

\* a delete has just collapsed a nested table while another one remains
C17_Witness ==
    /\ ilast.op = "delete" /\ ilast.err = OK /\ ilast.nested < 0
    /\ NestedTables(iht) # {}

\* C18: len() is the number of keys set and not deleted since, and items()
\* lists each of them exactly once with its latest value; a set of a stored
\* key therefore leaves len() unchanged.
C18_LenAndItems ==
    LET set == { key \in ikeys : ishadow[key] # Absent } IN
    /\ iht_len(iht) = Cardinality(set)
    /\ Len(iht_items(iht)) = Cardinality(set)
    /\ BagOf(iht_items(iht)) = [item \in { <<key, ishadow[key][1]>> : key \in set } |-> 1]

\* two keys share a nested table at the third level and the last call was a
\* set that created no table: an overwrite inside the nested table
C18_Witness ==
    /\ ilast.op = "set" /\ ilast.err = OK /\ ilast.nested = 0
    /\ iht_len(iht) = 2
    /\ \A key \in StoredKeys(iht) : Len(Location(iht, key).val) >= 3

\* the slot a path of slot indices ends in
EntryAt(t, path) ==
    At(TableAt(t, SubSeq(path, 1, Len(path) - 1)).table, path[Len(path)])

\* C19: get_location of a stored key is the list of the slots the key hashes
\* to level by level (character code modulo 26, or 26 past the end of the
\* key), ending at the level of its leaf; for a key not stored it fails with
\* KeyError.
C19_LocationIsHashPath ==
    \A key \in ikeys :
        LET loc == Location(iht, key) IN
        IF ishadow[key] # Absent
        THEN /\ loc.err = OK
             /\ Len(loc.val) >= 1
             /\ \A i \in 1..Len(loc.val) :
                    loc.val[i] = IF i <= Len(key) THEN key[i] % 26 ELSE 26
             /\ EntryAt(iht, loc.val) = Leaf(key, ishadow[key][1])
        ELSE loc.err = KeyError

\* a key is located past its own end, two levels down, while a key that hashes
\* into the same nested table is not stored
C19_Witness ==
    /\ \E key \in ikeys :
          /\ ishadow[key] # Absent
          /\ Len(Location(iht, key).val) = Len(key) + 1
          /\ Len(key) >= 2
    /\ \E key \in ikeys :
          /\ ishadow[key] = Absent
          /\ At(iht.table, iht_hash(0, key)).kind = "table"

\* a < b on strings, lexicographically
LexLess(a, b) ==
    \E p \in 1..(Len(b)) :
        /\ \A q \in 1..(p - 1) : q <= Len(a) /\ a[q] = b[q]
        /\ (p > Len(a) \/ a[p] < b[p])

\* C20: sort_keys() returns every stored key exactly once and no other key,
\* in ascending lexicographic order.
C20_SortKeys ==
    LET sorted == iht_sort_keys(iht) IN
    /\ Len(sorted) = Cardinality(StoredKeys(iht))
    /\ { sorted[i] : i \in 1..Len(sorted) } = StoredKeys(iht)
    /\ \A i \in 1..(Len(sorted) - 1) : LexLess(sorted[i], sorted[i + 1])

\* keys at three levels are stored and the slot order of a nested table
\* differs from the sorted order
C20_Witness ==
    /\ \E key \in StoredKeys(iht) : Len(Location(iht, key).val) >= 3
    /\ iht_len(iht) >= 4
    /\ \E n \in NestedTables(iht) : sort_keys_unsorted(n) # iht_sort_keys(n)

\* C21: a delete of a key that is not stored fails with KeyError and leaves
\* the whole nesting structure unchanged.
C21_FailedDeleteChangesNothing ==
    [][\A key \in ikeys :
          (ilast'.op = "delete" /\ iht_getitem(iht, key).err # OK /\ IHT_Delete(key)) =>
              /\ ilast'.err = KeyError
              /\ iht' = iht
              /\ ishadow' = ishadow]_vars

\* a delete has just failed on a table with a nested table inside a nested
\* table, where absent keys meet an empty slot, another key's leaf, and a
\* nested table
C21_Witness ==
    /\ ilast.op = "delete" /\ ilast.err = KeyError
    /\ \E n \in NestedTables(iht) : n.level >= 2
    /\ \E key \in ikeys \ StoredKeys(iht) : At(iht.table, iht_hash(0, key)).kind = "none"
    /\ \E key \in ikeys \ StoredKeys(iht) : At(iht.table, iht_hash(0, key)).kind = "table"

\* ===========================================================================
\* Trail (src/trail.py): a trail store is None, a TrailSeries (a mountain and
\* the following trail) or a TrailSplit (top, bottom and following trail).
\* A field that holds an object or None is a sequence of one element or none.
\* ===========================================================================
AttributeError == "AttributeError"

\* Mountain(name, difficulty_level, length): "x" and "y"
TrailMountains ==
    { [name |-> <<120>>, difficulty_level |-> 1, length |-> 1],
      [name |-> <<121>>, difficulty_level |-> 2, length |-> 1] }

\* the store None
NoStore == [kind |-> "none", mountain |-> <<>>, following |-> <<>>, top |-> <<>>, bottom |-> <<>>]

\* Trail(store): a trail is taken for the store it holds
Trail(store) == store

\* TrailSeries(mountain, following); mountain is <<m>>, or <<>> for None
TrailSeries(mountain, following) ==
    [kind |-> "series", mountain |-> mountain, following |-> <<following>>,
     top |-> <<>>, bottom |-> <<>>]

\* TrailSplit(top, bottom, following)
TrailSplit(top, bottom, following) ==
    [kind |-> "split", mountain |-> <<>>, following |-> <<following>>,
     top |-> <<top>>, bottom |-> <<bottom>>]

\* TrailSplit.remove_branch(self): self.following.store.mountain is read
\* whatever the store is
TrailSplit_remove_branch(self) ==
    LET store == self.following[1] IN
    IF store.kind = "series"
    THEN [val |-> TrailSeries(store.mountain, Trail(NoStore)), err |-> OK]
    ELSE [val |-> NoStore, err |-> AttributeError]

\* TrailSeries.remove_mountain(self): the receiver after the call and the
\* store returned
TrailSeries_remove_mountain(self) ==
    LET assigned == [self EXCEPT !.mountain = <<>>] IN
    [self |-> assigned, val |-> TrailSeries(assigned.mountain, assigned.following[1])]

TrailSeries_add_mountain_before(self, mountain) == TrailSeries(<<mountain>>, Trail(self))

TrailSeries_add_empty_branch_before(self) ==
    TrailSplit(Trail(NoStore), Trail(NoStore), Trail(self))

TrailSeries_add_mountain_after(self, mountain) ==
    TrailSeries(self.mountain, Trail(TrailSeries(<<mountain>>, self.following[1])))

TrailSeries_add_empty_branch_after(self) ==
    TrailSeries(self.mountain,
                Trail(TrailSplit(Trail(NoStore), Trail(NoStore), self.following[1])))

\* Trail.add_mountain_before(self, mountain), self being Trail(store)
Trail_add_mountain_before(store, mountain) == Trail(TrailSeries(<<mountain>>, Trail(store)))

\* Trail.add_empty_branch_before(self)
Trail_add_empty_branch_before(store) ==
    Trail(TrailSplit(Trail(NoStore), Trail(NoStore), Trail(store)))

\* the series and splits of a store
RECURSIVE TrailSize(_)
TrailSize(store) ==
    IF store.kind = "none" THEN 0
    ELSE IF store.kind = "series" THEN 1 + TrailSize(store.following[1])
    ELSE 1 + TrailSize(store.top[1]) + TrailSize(store.bottom[1])
           + TrailSize(store.following[1])

\* ------------------------------------------------ the system of one trail
InitTrail ==
    /\ tstore = NoStore
    /\ treceiver = NoStore
    /\ tlast = [op |-> "init", err |-> OK]
    /\ external_table_sizes = <<>> /\ internal_table_sizes = <<>>
    /\ size_index = 0 /\ external_table_array = <<>> /\ external_table_length = 0
    /\ tables = <<>> /\ keys1 = {} /\ keys2 = {} /\ shadow = <<>> /\ last = <<>>
    /\ iht = <<>> /\ ikeys = {} /\ ishadow = <<>> /\ ilast = <<>>
    /\ manager = <<>> /\ mlast = <<>>
    /\ NoWalk /\ NoOrganiser

\* a call on tstore has left its receiver as `receiver` and returned `store`,
\* which the next call is made on
TrailCall(op, receiver, store, err) ==
    /\ TrailSize(store) <= MaxTrailSize
    /\ tstore' = IF err = OK THEN store ELSE tstore
    /\ treceiver' = receiver
    /\ tlast' = [op |-> op, err |-> err]
    /\ UNCHANGED << dkt_vars, iht_vars, mm_vars, walk_vars, org_vars >>

TrailAddMountainBefore(mountain) ==
    TrailCall("Trail.add_mountain_before", tstore,
              Trail_add_mountain_before(tstore, mountain), OK)

TrailAddEmptyBranchBefore ==
    TrailCall("Trail.add_empty_branch_before", tstore,
              Trail_add_empty_branch_before(tstore), OK)

SeriesAddMountainBefore(mountain) ==
    /\ tstore.kind = "series"
    /\ TrailCall("TrailSeries.add_mountain_before", tstore,
                 TrailSeries_add_mountain_before(tstore, mountain), OK)

SeriesAddEmptyBranchBefore ==
    /\ tstore.kind = "series"
    /\ TrailCall("TrailSeries.add_empty_branch_before", tstore,
                 TrailSeries_add_empty_branch_before(tstore), OK)

SeriesAddMountainAfter(mountain) ==
    /\ tstore.kind = "series"
    /\ TrailCall("TrailSeries.add_mountain_after", tstore,
                 TrailSeries_add_mountain_after(tstore, mountain), OK)

SeriesAddEmptyBranchAfter ==
    /\ tstore.kind = "series"
    /\ TrailCall("TrailSeries.add_empty_branch_after", tstore,
                 TrailSeries_add_empty_branch_after(tstore), OK)

SeriesRemoveMountain ==
    /\ tstore.kind = "series"
    /\ LET r == TrailSeries_remove_mountain(tstore)
       IN  TrailCall("TrailSeries.remove_mountain", r.self, r.val, OK)

SplitRemoveBranch ==
    /\ tstore.kind = "split"
    /\ LET r == TrailSplit_remove_branch(tstore)
       IN  TrailCall("TrailSplit.remove_branch", tstore, r.val, r.err)

NextTrail ==
    \/ \E mountain \in TrailMountains : TrailAddMountainBefore(mountain)
    \/ TrailAddEmptyBranchBefore
    \/ \E mountain \in TrailMountains : SeriesAddMountainBefore(mountain)
    \/ SeriesAddEmptyBranchBefore
    \/ \E mountain \in TrailMountains : SeriesAddMountainAfter(mountain)
    \/ SeriesAddEmptyBranchAfter
    \/ SeriesRemoveMountain
    \/ SplitRemoveBranch

SpecTrail == InitTrail /\ [][NextTrail]_vars

\* C22: remove_branch returns the store of the split's following trail,
\* whatever that trail is.
C22_RemoveBranchLeavesFollowing ==
    [][(tlast'.op = "TrailSplit.remove_branch" /\ SplitRemoveBranch) =>
          /\ tlast'.err = OK
          /\ tstore' = tstore.following[1]]_vars

\* C23: remove_mountain leaves the series it is called on as it was.
C23_RemoveMountainKeepsReceiver ==
    [][(tlast'.op = "TrailSeries.remove_mountain" /\ SeriesRemoveMountain) =>
          treceiver' = tstore]_vars

\* ===========================================================================
\* MountainManager (src/mountain_manager.py): self.mountains maps a name to
\* (difficulty level as a string, length); self.difficulty_groups is an
\* InfiniteHashTable from the difficulty level as a string to the list of the
\* mountains of that level.
\* ===========================================================================
ValueError == "ValueError"

\* the difficulty levels of the managed mountains; "1" and "10" share a prefix
Difficulties == { 1, 2, 10 }

\* Mountain(name, difficulty_level, length) with the names "x" and "y"
ManagedMountains ==
    { [name |-> name, difficulty_level |-> level, length |-> 1] :
          name \in { <<120>>, <<121>> }, level \in Difficulties }

\* str(n) of a natural number: its decimal digits
RECURSIVE str(_)
str(n) == IF n < 10 THEN <<48 + n>> ELSE str(n \div 10) \o <<48 + (n % 10)>>

\* Mountain.__eq__: true when level and name are equal, None (false) otherwise
Mountain_eq(self, other) ==
    self.difficulty_level = other.difficulty_level /\ self.name = other.name

\* mountain in list
InList(list, mountain) == \E i \in 1..Len(list) : Mountain_eq(list[i], mountain)

\* list.remove(mountain): without the first element equal to mountain
ListRemove(list, mountain) ==
    LET i == CHOOSE j \in 1..Len(list) :
                 /\ Mountain_eq(list[j], mountain)
                 /\ \A k \in 1..(j - 1) : ~Mountain_eq(list[k], mountain)
    IN  SubSeq(list, 1, i - 1) \o SubSeq(list, i + 1, Len(list))

\* The single-key table of names, by what it maps: a name to <<value>>, or to
\* <<>> when it is not a key.
NameTable_New == [name \in { m.name : m \in ManagedMountains } |-> <<>>]
NameTable_contains(table, key) == table[key] # <<>>
NameTable_setitem(table, key, value) == [table EXCEPT ![key] = <<value>>]
NameTable_delitem(table, key) ==
    IF table[key] = <<>> THEN [t |-> table, err |-> KeyError]
    ELSE [t |-> [table EXCEPT ![key] = <<>>], err |-> OK]

\* MountainManager()
MountainManager_New == [mountains |-> NameTable_New, difficulty_groups |-> IHT_New(0)]

\* the mountain takes the place of the list of its level
add_to_group_replacing(groups, level, mountain) == iht_setitem(groups, level, <<mountain>>).t

\* lines 60-64: the mountain joins the list of its level, or starts it
add_to_group(groups, level, mountain) ==
    LET group == iht_getitem(groups, level) IN
    IF group.err = OK
    THEN (IF ~InList(group.val, mountain)
          THEN iht_setitem(groups, level, Append(group.val, mountain)).t
          ELSE groups)
    ELSE iht_setitem(groups, level, <<mountain>>).t

\* add_mountain with the test of line 55 made after the write of line 58
add_mountain_checked_late(self, mountain) ==
    LET mountain_difficulty_level == str(mountain.difficulty_level)
        written == [self EXCEPT !.mountains =
                        NameTable_setitem(self.mountains, mountain.name,
                                          <<mountain_difficulty_level, mountain.length>>)]
    IN  IF NameTable_contains(self.mountains, mountain.name)
        THEN [self |-> written, err |-> ValueError]
        ELSE [self |-> [written EXCEPT !.difficulty_groups =
                            add_to_group(self.difficulty_groups,
                                         mountain_difficulty_level, mountain)],
              err |-> OK]

\* self.add_mountain(mountain)
MountainManager_add_mountain(self, mountain) ==
    LET mountain_difficulty_level == str(mountain.difficulty_level)
    IN  IF NameTable_contains(self.mountains, mountain.name)
        THEN [self |-> self, err |-> ValueError]
        ELSE [self |-> [self EXCEPT
                  !.mountains = NameTable_setitem(self.mountains, mountain.name,
                                                  <<mountain_difficulty_level, mountain.length>>),
                  !.difficulty_groups = add_to_group(self.difficulty_groups,
                                                     mountain_difficulty_level, mountain)],
              err |-> OK]

\* self.remove_mountain(mountain)
MountainManager_remove_mountain(self, mountain) ==
    LET mountain_difficulty_level == str(mountain.difficulty_level)
        deleted == NameTable_delitem(self.mountains, mountain.name)
        unnamed == [self EXCEPT !.mountains = deleted.t]
        group == iht_getitem(self.difficulty_groups, mountain_difficulty_level)
    IN  IF deleted.err # OK THEN [self |-> self, err |-> deleted.err]
        ELSE IF group.err # OK THEN [self |-> unnamed, err |-> group.err]
        ELSE IF ~InList(group.val, mountain) THEN [self |-> unnamed, err |-> ValueError]
        ELSE LET rest == ListRemove(group.val, mountain)
                 groups == iht_setitem(self.difficulty_groups, mountain_difficulty_level, rest).t
             IN  IF rest # <<>>
                 THEN [self |-> [unnamed EXCEPT !.difficulty_groups = groups], err |-> OK]
                 ELSE LET r == iht_delitem(groups, mountain_difficulty_level)
                      IN  [self |-> [unnamed EXCEPT !.difficulty_groups = r.t], err |-> r.err]

\* self.edit_mountain(old, new)
MountainManager_edit_mountain(self, old, new) ==
    LET removed == MountainManager_remove_mountain(self, old) IN
    IF removed.err # OK THEN removed
    ELSE MountainManager_add_mountain(removed.self, new)

\* ------------------------------------------------ the system of one manager
InitManager ==
    /\ manager = MountainManager_New
    /\ mlast = [op |-> "init", err |-> OK]
    /\ external_table_sizes = <<>> /\ internal_table_sizes = <<>>
    /\ size_index = 0 /\ external_table_array = <<>> /\ external_table_length = 0
    /\ tables = <<>> /\ keys1 = {} /\ keys2 = {} /\ shadow = <<>> /\ last = <<>>
    /\ iht = <<>> /\ ikeys = {} /\ ishadow = <<>> /\ ilast = <<>>
    /\ tstore = <<>> /\ treceiver = <<>> /\ tlast = <<>>
    /\ NoWalk /\ NoOrganiser

ManagerCall(op, r) ==
    /\ manager' = r.self
    /\ mlast' = [op |-> op, err |-> r.err]
    /\ UNCHANGED << dkt_vars, iht_vars, trail_vars, walk_vars, org_vars >>

AddMountain(mountain) ==
    ManagerCall("add_mountain", MountainManager_add_mountain(manager, mountain))

RemoveMountain(mountain) ==
    ManagerCall("remove_mountain", MountainManager_remove_mountain(manager, mountain))

EditMountain(old, new) ==
    ManagerCall("edit_mountain", MountainManager_edit_mountain(manager, old, new))

NextManager ==
    \/ \E mountain \in ManagedMountains : AddMountain(mountain)
    \/ \E mountain \in ManagedMountains : RemoveMountain(mountain)
    \/ \E old, new \in ManagedMountains : EditMountain(old, new)

SpecManager == InitManager /\ [][NextManager]_vars

\* C24: add_mountain of a mountain whose name is already managed fails with
\* ValueError and leaves the name table and every difficulty group unchanged.
C24_DuplicateAddChangesNothing ==
    [][\A mountain \in ManagedMountains :
          (/\ mlast'.op = "add_mountain"
           /\ NameTable_contains(manager.mountains, mountain.name)
           /\ AddMountain(mountain)) =>
              /\ mlast'.err = ValueError
              /\ manager' = manager]_vars

\* an add has just failed with ValueError on a manager that holds two names,
\* in groups that share a nested table ("1" and "10")
C24_Witness ==
    /\ mlast.op = "add_mountain" /\ mlast.err = ValueError
    /\ \A name \in DOMAIN manager.mountains : NameTable_contains(manager.mountains, name)
    /\ NestedTables(manager.difficulty_groups) # {}

\* C25: a set on the InfiniteHashTable terminates for every string key: a
\* collision of two distinct keys is resolved after finitely many nested
\* tables, so that every set returns.
C25_SetTerminates == ilast.op = "set" => ilast.err = OK

\* C26: delete on the DoubleKeyTable always terminates: in every reachable
\* state the delete of any pair returns or fails with KeyError, its cluster
\* walk having reached an empty slot.
C26_DeleteTerminates ==
    /\ last.err # Unfinished
    /\ \A p \in RunPairs :
          delitem(D, internal_table_sizes, p[1], p[2]).err \in { OK, KeyError }

\* a delete has just cleared a slot of an outer table that was completely
\* full at its largest size class
C26_Witness ==
    /\ last.op = "delete" /\ last.err = OK /\ last.effect = "cleared"
    /\ AtLargest(D)
    /\ Occupied(D) = table_size(D) - 1

\* C27: the occupancy counter equals the number of non-empty outer slots after
\* every call, and a set under a first-level key that is already present
\* leaves it as it was.
C27_LengthCountsSlots ==
    [][/\ external_table_length' = Occupied(D')
       /\ \A key1 \in keys1, key2 \in keys2, data \in Values :
             (last'.op = "set" /\ SlotsOf(D, key1) # {} /\ Set(key1, key2, data)) =>
                 external_table_length' = external_table_length]_vars

\* a first-level key holds two entries in a table that has grown, next to
\* another first-level key, and the last call was a set that did not grow it
C27_Witness ==
    /\ last.op = "set" /\ last.err = OK /\ last.effect = "none"
    /\ size_index >= 1
    /\ external_table_length >= 2
    /\ \E key1 \in keys1 : Cardinality({ p \in StoredPairs(D) : p[1] = key1 }) >= 2

\* C28: no two outer slots hold the same first-level key: each key1 owns at
\* most one inner table.
C28_OneSlotPerKey ==
    /\ \A key1 \in keys1 : Cardinality(SlotsOf(D, key1)) <= 1
    /\ \A i, j \in 0..(table_size(D) - 1) :
          (At(D.array, i).used /\ At(D.array, j).used /\ i # j) =>
              At(D.array, i).tab # At(D.array, j).tab

\* a delete has just cleared a slot and repaired the cluster behind it, in a
\* table that has grown and still holds two first-level keys
C28_Witness ==
    /\ last.op = "delete" /\ last.err = OK /\ last.effect = "cleared"
    /\ size_index >= 1
    /\ external_table_length >= 2
    /\ \E i \in 0..(table_size(D) - 1) :
          At(D.array, i).used /\ hash1(D, At(D.array, i).key) # i

\* C29: a delete of (k1, k2) that leaves another second-level key under k1
\* changes only the inner table of k1: the outer array, the occupancy count,
\* the size class and every other inner table stay as they were.
C29_DeleteInsideInnerTable ==
    [][\A key1 \in keys1, key2 \in keys2 :
          (/\ last'.op = "delete"
           /\ Get(D, <<key1, key2>>).err = OK
           /\ \E other \in keys2 \ {key2} : Get(D, <<key1, other>>).err = OK
           /\ Delete(key1, key2)) =>
              /\ last'.err = OK
              /\ UNCHANGED << external_table_array, external_table_length, size_index >>
              /\ \A ref \in TableRefs :
                    ref \notin RefOf(D)[key1] => tables'[ref] = tables[ref]
              /\ Get(D', <<key1, key2>>).err = KeyError
              /\ \A p \in RunPairs \ {<<key1, key2>>} : Get(D', p) = Get(D, p)]_vars

\* a delete has just left the outer table as it was, which holds two
\* first-level keys and has grown
C29_Witness ==
    /\ last.op = "delete" /\ last.err = OK /\ last.effect = "none"
    /\ size_index >= 1
    /\ external_table_length >= 2

\* ------------------------------------------- the system with the read calls
\* table[key1, key2] and (key1, key2) in table, which calls table[key1, key2]
ReadCall(op, d, err) ==
    /\ Become(d)
    /\ last' = [op |-> op, err |-> err, effect |-> IF d = D THEN "none" ELSE "changed"]
    /\ UNCHANGED shadow

GetItem(key1, key2) ==
    ReadCall("get", getitem_probe(D, internal_table_sizes, key1, key2).d,
             getitem(D, internal_table_sizes, key1, key2).err)

Contains(key1, key2) ==
    ReadCall("contains", getitem_probe(D, internal_table_sizes, key1, key2).d, OK)

\* len(table), table.keys(key) and table.values(key), key None included:
\* their bodies assign nothing and probe nothing
LenCall == ReadCall("len", D, OK)

KeysCall(key) == ReadCall("keys", D, keys_of(D, key).err)

KeysAllCall == ReadCall("keys", D, OK)

ValuesCall(key) == ReadCall("values", D, values_of(D, key).err)

ValuesAllCall == ReadCall("values", D, OK)

\* one run: two first-level keys with two second-level keys each
InitReads == Init /\ Cardinality(keys1) = 2

NextReads ==
    \/ Next
    \/ \E key1 \in keys1, key2 \in keys2 : GetItem(key1, key2)
    \/ \E key1 \in keys1, key2 \in keys2 : Contains(key1, key2)
    \/ LenCall
    \/ \E key \in keys1 : KeysCall(key)
    \/ KeysAllCall
    \/ \E key \in keys1 : ValuesCall(key)
    \/ ValuesAllCall

SpecReads == InitReads /\ [][NextReads]_vars

ReadOps == { "get", "contains", "len", "keys", "values" }

\* C30: get, membership test, len, keys and values, whether they succeed or
\* fail with KeyError, leave the outer array, the occupancy count, the size
\* class and every inner table as they were.
C30_ReadsChangeNothing ==
    [][last'.op \in ReadOps =>
          /\ UNCHANGED << external_table_array, external_table_length, size_index, tables >>
          /\ last'.effect = "none"
          /\ last'.err \in { OK, KeyError }]_vars

\* a lookup has just failed with KeyError on a table that has grown and holds
\* one first-level key, the other being absent
C30_Witness ==
    /\ last.op = "get" /\ last.err = KeyError
    /\ size_index >= 1
    /\ external_table_length = 1
    /\ \E key1 \in keys1 : SlotsOf(D, key1) = {}

\* ------------------------------------------------ InfiniteHashTable, order
\* the slots a key hashes to at levels 0 .. depth - 1
HashPath(key, depth) == [i \in 1..depth |-> iht_hash(i - 1, key)]

\* C31: the nesting structure depends only on the set of stored keys: every
\* stored key has the get_location its hash path and the other stored keys
\* give it, whatever the order of the sets and deletes that led here.
C31_StructureFromKeySet ==
    \A key \in ikeys :
        IF key \in StoredKeys(iht)
        THEN /\ Location(iht, key).err = OK
             /\ Location(iht, key).val = HashPath(key, FreeDepth(key, StoredKeys(iht)))
        ELSE Location(iht, key).err = KeyError

\* a delete has just collapsed a nested table and left at least three keys
\* in a nested table that remains
C31_Witness ==
    /\ ilast.op = "delete" /\ ilast.err = OK /\ ilast.nested < 0
    /\ Cardinality({ key \in StoredKeys(iht) : Len(Location(iht, key).val) = 2 }) >= 3

\* ------------------------------------------------------------ Trail, paths
\* PersonalityDecision
TOP == "TOP"
BOTTOM == "BOTTOM"
STOP == "STOP"
PersonalityDecisions == { TOP, BOTTOM, STOP }

\* WalkerPersonality: the mountains added and the decisions made so far
Personality_New == [mountains |-> <<>>, decisions |-> <<>>]

\* personality.add_mountain(mountain)
Personality_add_mountain(p, mountain) == [p EXCEPT !.mountains = Append(@, mountain)]

\* personality.select_branch(top, bottom) has answered `decision`
Personality_select_branch(p, decision) == [p EXCEPT !.decisions = Append(@, decision)]

\* the stores of exactly n series and splits, every series with a mountain
RECURSIVE StoresOfSize(_)
StoresOfSize(n) ==
    IF n = 0 THEN { NoStore }
    ELSE { TrailSeries(<<m>>, Trail(f)) : m \in TrailMountains, f \in StoresOfSize(n - 1) }
         \cup UNION { UNION { { TrailSplit(Trail(t), Trail(b), Trail(f)) :
                                   t \in StoresOfSize(a), b \in StoresOfSize(c),
                                   f \in StoresOfSize(n - 1 - a - c) } :
                              c \in 0..(n - 1 - a) } :
                      a \in 0..(n - 1) }

WalkedStores == UNION { StoresOfSize(n) : n \in 0..MaxWalkSize }

\* LinkedStack: the top of the stack is the last element
Push(stack, item) == Append(stack, item)
Peek(stack) == stack[Len(stack)]
Popped(stack) == SubSeq(stack, 1, Len(stack) - 1)

\* one pass of the loop with a STOP that is taken for "neither branch"
follow_path_iteration_not_stopping(store, stack, p, decision) ==
    IF store.kind = "none" /\ stack = <<>>
    THEN [store |-> store, before_splitting |-> stack, personality |-> p, pc |-> "returned"]
    ELSE LET s == IF store.kind = "none" THEN Peek(stack) ELSE store
             st == IF store.kind = "none" THEN Popped(stack) ELSE stack
         IN  IF s.kind = "series"
             THEN [store |-> s.following[1], before_splitting |-> st,
                   personality |-> Personality_add_mountain(p, s.mountain[1]), pc |-> "loop"]
             ELSE IF s.kind = "split"
             THEN [store |-> IF decision = TOP THEN s.top[1]
                             ELSE IF decision = BOTTOM THEN s.bottom[1] ELSE NoStore,
                   before_splitting |-> Push(st, s.following[1]),
                   personality |-> Personality_select_branch(p, decision), pc |-> "loop"]
             ELSE [store |-> s, before_splitting |-> st, personality |-> p, pc |-> "loop"]

\* one pass of the while loop of follow_path (lines 154-190)
follow_path_iteration(store, stack, p, decision) ==
    IF store.kind = "none" /\ stack = <<>>
    THEN [store |-> store, before_splitting |-> stack, personality |-> p, pc |-> "returned"]
    ELSE LET s == IF store.kind = "none" THEN Peek(stack) ELSE store
             st == IF store.kind = "none" THEN Popped(stack) ELSE stack
         IN  IF s.kind = "series"
             THEN [store |-> s.following[1], before_splitting |-> st,
                   personality |-> Personality_add_mountain(p, s.mountain[1]), pc |-> "loop"]
             ELSE IF s.kind = "split"
             THEN [store |-> IF decision = TOP THEN s.top[1]
                             ELSE IF decision = BOTTOM THEN s.bottom[1] ELSE s,
                   before_splitting |-> Push(st, s.following[1]),
                   personality |-> Personality_select_branch(p, decision),
                   pc |-> IF decision = STOP THEN "returned" ELSE "loop"]
             ELSE [store |-> s, before_splitting |-> st, personality |-> p, pc |-> "loop"]

\* a traversal that does not push the bottom branch of a split
RECURSIVE collect_loop_without_bottom(_, _, _)
collect_loop_without_bottom(stack, mountains_list, passes) ==
    IF stack = <<>> THEN [val |-> mountains_list, err |-> OK]
    ELSE IF passes = 0 THEN [val |-> mountains_list, err |-> Unfinished]
    ELSE LET item == Peek(stack)
             rest == Popped(stack)
         IN  IF item.kind = "series"
             THEN collect_loop_without_bottom(Push(rest, item.following[1]),
                                              Append(mountains_list, item.mountain[1]),
                                              passes - 1)
             ELSE IF item.kind = "split"
             THEN collect_loop_without_bottom(Push(Push(rest, item.top[1]), item.following[1]),
                                              mountains_list, passes - 1)
             ELSE collect_loop_without_bottom(rest, mountains_list, passes - 1)

\* the while loop of collect_all_mountains (lines 199-211), which is let run
\* for `passes` passes
RECURSIVE collect_loop(_, _, _)
collect_loop(stack, mountains_list, passes) ==
    IF stack = <<>> THEN [val |-> mountains_list, err |-> OK]
    ELSE IF passes = 0 THEN [val |-> mountains_list, err |-> Unfinished]
    ELSE LET item == Peek(stack)
             rest == Popped(stack)
         IN  IF item.kind = "series"
             THEN collect_loop(Push(rest, item.following[1]),
                               Append(mountains_list, item.mountain[1]), passes - 1)
             ELSE IF item.kind = "split"
             THEN collect_loop(Push(Push(Push(rest, item.top[1]), item.bottom[1]),
                                    item.following[1]),
                               mountains_list, passes - 1)
             ELSE collect_loop(rest, mountains_list, passes - 1)

\* every pass pops one store, and a trail of n series and splits has at most
\* 3 * n + 1 stores pushed
CollectPasses(store) == 4 * TrailSize(store) + 2

\* Trail.collect_all_mountains(self)
collect_all_mountains(store) == collect_loop(Push(<<>>, store), <<>>, CollectPasses(store))

\* a search that leaves out a mountain that is too hard and walks on
RECURSIVE difficulty_maximum_auxiliary_skipping(_, _, _, _, _)
difficulty_maximum_auxiliary_skipping(current_store, max_difficulty, all_store_paths, ind_path, follow_path_list) ==
    IF current_store.kind = "split"
    THEN LET below == Append(follow_path_list, current_store.following[1])
             after_top == difficulty_maximum_auxiliary_skipping(
                              current_store.top[1], max_difficulty, all_store_paths,
                              ind_path, below)
         IN  difficulty_maximum_auxiliary_skipping(
                 current_store.bottom[1], max_difficulty, after_top, ind_path, below)
    ELSE IF current_store.kind = "series"
    THEN difficulty_maximum_auxiliary_skipping(
             current_store.following[1], max_difficulty, all_store_paths,
             IF current_store.mountain[1].difficulty_level <= max_difficulty
             THEN Append(ind_path, current_store.mountain[1]) ELSE ind_path,
             follow_path_list)
    ELSE IF follow_path_list # <<>>
    THEN difficulty_maximum_auxiliary_skipping(
             Peek(follow_path_list), max_difficulty, all_store_paths, ind_path,
             Popped(follow_path_list))
    ELSE Append(all_store_paths, ind_path)

\* Trail.difficulty_maximum_auxiliary: all_store_paths after the call. The
\* split passes copies of ind_path and new lists follow_path_list + [...]
\* down, so no list is shared between the two branches.
RECURSIVE difficulty_maximum_auxiliary(_, _, _, _, _)
difficulty_maximum_auxiliary(current_store, max_difficulty, all_store_paths, ind_path, follow_path_list) ==
    IF current_store.kind = "split"
    THEN LET below == Append(follow_path_list, current_store.following[1])
             after_top == difficulty_maximum_auxiliary(
                              current_store.top[1], max_difficulty, all_store_paths,
                              ind_path, below)
         IN  difficulty_maximum_auxiliary(
                 current_store.bottom[1], max_difficulty, after_top, ind_path, below)
    ELSE IF current_store.kind = "series"
    THEN IF current_store.mountain[1].difficulty_level <= max_difficulty
         THEN difficulty_maximum_auxiliary(
                  current_store.following[1], max_difficulty, all_store_paths,
                  Append(ind_path, current_store.mountain[1]), follow_path_list)
         ELSE all_store_paths
    ELSE IF follow_path_list # <<>>
    THEN difficulty_maximum_auxiliary(
             Peek(follow_path_list), max_difficulty, all_store_paths, ind_path,
             Popped(follow_path_list))
    ELSE Append(all_store_paths, ind_path)

\* Trail.difficulty_maximum_paths(self, max_difficulty)
difficulty_maximum_paths(store, max_difficulty) ==
    difficulty_maximum_auxiliary(store, max_difficulty, <<>>, <<>>, <<>>)

\* the values of max_difficulty the paths are asked for
MaxDifficulties == { 0 } \cup { m.difficulty_level : m \in TrailMountains }

\* ------------------------------------------------ the system of the walks
InitWalk ==
    /\ trail \in WalkedStores
    /\ walk_store = NoStore
    /\ before_splitting = <<>>
    /\ personality = Personality_New
    /\ walk_pc = "idle"
    /\ walk_result = [op |-> "init", max_difficulty |-> 0, val |-> <<>>, err |-> OK]
    /\ external_table_sizes = <<>> /\ internal_table_sizes = <<>>
    /\ size_index = 0 /\ external_table_array = <<>> /\ external_table_length = 0
    /\ tables = <<>> /\ keys1 = {} /\ keys2 = {} /\ shadow = <<>> /\ last = <<>>
    /\ iht = <<>> /\ ikeys = {} /\ ishadow = <<>> /\ ilast = <<>>
    /\ tstore = <<>> /\ treceiver = <<>> /\ tlast = <<>>
    /\ manager = <<>> /\ mlast = <<>>
    /\ NoOrganiser

WalkFrame == UNCHANGED << trail, dkt_vars, iht_vars, trail_vars, mm_vars, org_vars >>

\* trail.follow_path(personality) is called (lines 149-151)
FollowPath ==
    /\ walk_pc = "idle"
    /\ walk_store' = trail
    /\ before_splitting' = <<>>
    /\ personality' = Personality_New
    /\ walk_pc' = "loop"
    /\ UNCHANGED walk_result
    /\ WalkFrame

\* one pass of its loop, the personality answering `decision` at a split
FollowPathIteration(decision) ==
    /\ walk_pc = "loop"
    /\ LET r == follow_path_iteration(walk_store, before_splitting, personality, decision)
       IN  /\ walk_store' = r.store
           /\ before_splitting' = r.before_splitting
           /\ personality' = r.personality
           /\ walk_pc' = r.pc
    /\ UNCHANGED walk_result
    /\ WalkFrame

\* a call that returns a list
PathCall(op, max_difficulty, r) ==
    /\ walk_pc = "idle"
    /\ walk_result' = [op |-> op, max_difficulty |-> max_difficulty,
                       val |-> r.val, err |-> r.err]
    /\ UNCHANGED << walk_store, before_splitting, personality, walk_pc >>
    /\ WalkFrame

CollectAllMountains == PathCall("collect_all_mountains", 0, collect_all_mountains(trail))

DifficultyMaximumPaths(max_difficulty) ==
    PathCall("difficulty_maximum_paths", max_difficulty,
             [val |-> difficulty_maximum_paths(trail, max_difficulty), err |-> OK])

NextWalk ==
    \/ FollowPath
    \/ \E decision \in PersonalityDecisions : FollowPathIteration(decision)
    \/ CollectAllMountains
    \/ \E max_difficulty \in MaxDifficulties : DifficultyMaximumPaths(max_difficulty)

\* a call that has started keeps running: the code is synchronous
SpecWalk ==
    InitWalk /\ [][NextWalk]_vars
             /\ WF_vars(\E decision \in PersonalityDecisions : FollowPathIteration(decision))

\* ---------------------------------------------- properties of the walks
\* the walk the decisions ds select from a store on: its mountains in walking
\* order, the decisions left over, whether a STOP ended it, and whether it
\* came to a split with no decision left
RECURSIVE PathOf(_, _)
PathOf(store, ds) ==
    IF store.kind = "none"
    THEN [mountains |-> <<>>, rest |-> ds, stopped |-> FALSE, short |-> FALSE]
    ELSE IF store.kind = "series"
    THEN LET f == PathOf(store.following[1], ds)
         IN  [f EXCEPT !.mountains = <<store.mountain[1]>> \o @]
    ELSE IF ds = <<>>
    THEN [mountains |-> <<>>, rest |-> ds, stopped |-> FALSE, short |-> TRUE]
    ELSE IF Head(ds) = STOP
    THEN [mountains |-> <<>>, rest |-> Tail(ds), stopped |-> TRUE, short |-> FALSE]
    ELSE LET branch == PathOf(IF Head(ds) = TOP THEN store.top[1] ELSE store.bottom[1],
                              Tail(ds))
         IN  IF branch.stopped \/ branch.short THEN branch
             ELSE LET f == PathOf(store.following[1], branch.rest)
                  IN  [f EXCEPT !.mountains = branch.mountains \o @]

RECURSIVE SplitsOf(_)
SplitsOf(store) ==
    IF store.kind = "none" THEN 0
    ELSE IF store.kind = "series" THEN SplitsOf(store.following[1])
    ELSE 1 + SplitsOf(store.top[1]) + SplitsOf(store.bottom[1])
           + SplitsOf(store.following[1])

\* the choices of one branch at each split met that lead from the start of a
\* store to its end
CompleteChoices(store) ==
    { ds \in UNION { [1..k -> { TOP, BOTTOM }] : k \in 0..SplitsOf(store) } :
          ~PathOf(store, ds).short /\ PathOf(store, ds).rest = <<>> }

\* every mountain of the list has at most the given difficulty
WithinDifficulty(mountains, max_difficulty) ==
    \A i \in 1..Len(mountains) : mountains[i].difficulty_level <= max_difficulty

\* C33: difficulty_maximum_paths returns exactly the complete paths (one
\* branch chosen at each split, from the start to the end of the trail) on
\* which every mountain has at most max_difficulty, each as its mountains in
\* walking order and once per choice of branches; no path with a harder
\* mountain is returned, whole or in part.
C33_DifficultyMaximumPaths ==
    walk_result.op = "difficulty_maximum_paths" =>
        LET allowed == { ds \in CompleteChoices(trail) :
                            WithinDifficulty(PathOf(trail, ds).mountains,
                                             walk_result.max_difficulty) }
            paths == { PathOf(trail, ds).mountains : ds \in allowed }
        IN  /\ walk_result.err = OK
            /\ BagOf(walk_result.val) =
                  [path \in paths |->
                      Cardinality({ ds \in allowed : PathOf(trail, ds).mountains = path })]

\* of the two complete paths of a trail one was returned and the other, which
\* has an easy mountain before a harder one, was not
C33_Witness ==
    /\ walk_result.op = "difficulty_maximum_paths"
    /\ Len(walk_result.val) = 1
    /\ Cardinality(CompleteChoices(trail)) = 2
    /\ \E ds \in CompleteChoices(trail) :
          LET path == PathOf(trail, ds).mountains IN
          /\ Len(path) = 2
          /\ path[1].difficulty_level <= walk_result.max_difficulty
          /\ path[2].difficulty_level > walk_result.max_difficulty

\* the mountains of the series of a store, branch by branch
RECURSIVE MountainsOn(_)
MountainsOn(store) ==
    IF store.kind = "none" THEN <<>>
    ELSE IF store.kind = "series"
    THEN <<store.mountain[1]>> \o MountainsOn(store.following[1])
    ELSE MountainsOn(store.top[1]) \o MountainsOn(store.bottom[1])
           \o MountainsOn(store.following[1])

\* C34: collect_all_mountains terminates and returns the mountain of every
\* series of the trail (in series, in both branches of every split and in
\* every following trail), once for each place it lies at.
C34_CollectAllMountains ==
    walk_result.op = "collect_all_mountains" =>
        /\ walk_result.err = OK
        /\ Len(walk_result.val) = TrailSize(trail) - SplitsOf(trail)
        /\ BagOf(walk_result.val) = BagOf(MountainsOn(trail))

\* the mountains of a split with a mountain in each of its branches have
\* been collected
C34_Witness ==
    /\ walk_result.op = "collect_all_mountains"
    /\ trail.kind = "split"
    /\ trail.top[1].kind = "series"
    /\ trail.bottom[1].kind = "series"
    /\ Len(walk_result.val) = 2

\* ------------------------------------------------ MountainManager, indexes
\* the places (level key, position) at which the difficulty groups hold a
\* mountain of the given name
PlacesOf(self, name) ==
    LET items == iht_items(self.difficulty_groups) IN
    { place \in UNION { { <<items[i][1], j>> : j \in 1..Len(items[i][2]) } :
                        i \in 1..Len(items) } :
          iht_getitem(self.difficulty_groups, place[1]).val[place[2]].name = name }

\* C35: after any sequence of add_mountain, remove_mountain and edit_mountain
\* calls, failed ones included, a name is in the name table if and only if a
\* mountain of that name is in exactly one difficulty group, the group of the
\* level the name table records for it.
C35_IndexesAgree ==
    \A name \in DOMAIN manager.mountains :
        IF NameTable_contains(manager.mountains, name)
        THEN /\ Cardinality(PlacesOf(manager, name)) = 1
             /\ \A place \in PlacesOf(manager, name) :
                   place[1] = manager.mountains[name][1][1]
        ELSE PlacesOf(manager, name) = {}

\* ------------------------------- the manager with the calls that succeed
\* Mountain(name, difficulty_level, length) with the names "x", "y" and "z"
GroupedMountains ==
    { [name |-> name, difficulty_level |-> level, length |-> 1] :
          name \in { <<120>>, <<121>>, <<122>> }, level \in Difficulties }

\* self.mountains_with_difficulty(diff)
MountainManager_mountains_with_difficulty(self, diff) ==
    LET group == iht_getitem(self.difficulty_groups, str(diff)) IN
    IF group.err = OK THEN group.val ELSE <<>>

\* the lists of the keys from the i-th on that are not empty (line 139)
RECURSIVE groups_from(_, _, _)
groups_from(self, difficulties, i) ==
    IF i > Len(difficulties) THEN <<>>
    ELSE LET group == iht_getitem(self.difficulty_groups, difficulties[i]).val
         IN  (IF group # <<>> THEN <<group>> ELSE <<>>)
                 \o groups_from(self, difficulties, i + 1)

\* self.group_by_difficulty()
MountainManager_group_by_difficulty(self) ==
    groups_from(self, iht_sort_keys(self.difficulty_groups), 1)

InitGroups ==
    /\ manager = [MountainManager_New EXCEPT
                     !.mountains = [name \in { m.name : m \in GroupedMountains } |-> <<>>]]
    /\ mlast = [op |-> "init", err |-> OK]
    /\ external_table_sizes = <<>> /\ internal_table_sizes = <<>>
    /\ size_index = 0 /\ external_table_array = <<>> /\ external_table_length = 0
    /\ tables = <<>> /\ keys1 = {} /\ keys2 = {} /\ shadow = <<>> /\ last = <<>>
    /\ iht = <<>> /\ ikeys = {} /\ ishadow = <<>> /\ ilast = <<>>
    /\ tstore = <<>> /\ treceiver = <<>> /\ tlast = <<>>
    /\ NoWalk /\ NoOrganiser

\* an add_mountain that returns
AddMountainReturning(mountain) ==
    /\ MountainManager_add_mountain(manager, mountain).err = OK
    /\ AddMountain(mountain)

\* a remove_mountain that returns
RemoveMountainReturning(mountain) ==
    /\ MountainManager_remove_mountain(manager, mountain).err = OK
    /\ RemoveMountain(mountain)

NextGroups ==
    \/ \E mountain \in GroupedMountains : AddMountainReturning(mountain)
    \/ \E mountain \in GroupedMountains : RemoveMountainReturning(mountain)

SpecGroups == InitGroups /\ [][NextGroups]_vars

\* the mountains added and not removed since, by the record of the name table
Managed(self) ==
    { m \in GroupedMountains :
          self.mountains[m.name] = << <<str(m.difficulty_level), m.length>> >> }

\* C36: after successful add_mountain and remove_mountain calls,
\* group_by_difficulty returns one list for each difficulty level that has a
\* managed mountain, no list is empty, each managed mountain is in exactly
\* one list, that of its level, and mountains_with_difficulty(d) is the list
\* of d, or the empty list when no mountain has difficulty d.
C36_GroupByDifficulty ==
    LET groups == MountainManager_group_by_difficulty(manager)
        levels == { m.difficulty_level : m \in Managed(manager) }
        ListsOf(d) == { i \in 1..Len(groups) : groups[i][1].difficulty_level = d }
    IN  /\ \A i \in 1..Len(groups) : groups[i] # <<>>
        /\ Len(groups) = Cardinality(levels)
        /\ \A i \in 1..Len(groups) : \A j \in 1..Len(groups[i]) :
              /\ groups[i][j] \in Managed(manager)
              /\ groups[i][j].difficulty_level = groups[i][1].difficulty_level
        /\ \A m \in Managed(manager) :
              Cardinality({ place \in UNION { { <<i, j>> : j \in 1..Len(groups[i]) } :
                                              i \in 1..Len(groups) } :
                               groups[place[1]][place[2]] = m }) = 1
        /\ \A d \in Difficulties :
              IF d \in levels
              THEN /\ Cardinality(ListsOf(d)) = 1
                   /\ \A i \in ListsOf(d) :
                         MountainManager_mountains_with_difficulty(manager, d) = groups[i]
              ELSE MountainManager_mountains_with_difficulty(manager, d) = <<>>

\* a remove has just returned and left two managed mountains, which share
\* the one list that is returned
C36_Witness ==
    /\ mlast.op = "remove_mountain" /\ mlast.err = OK
    /\ Len(MountainManager_group_by_difficulty(manager)) = 1
    /\ Cardinality(Managed(manager)) = 2

\* ------------------------------------------------------ MountainOrganiser
\* Mountain(name, difficulty_level, length) with the names "x", "xa" and "y"
OrganisedMountains ==
    { [name |-> name, difficulty_level |-> level, length |-> 1] :
          name \in { <<120>>, <<120, 97>>, <<121>> }, level \in { 1, 2 } }

\* Mountain.__lt__: the level first, the name at equal levels
Mountain_lt(self, other) ==
    IF self.difficulty_level < other.difficulty_level THEN TRUE
    ELSE IF self.difficulty_level > other.difficulty_level THEN FALSE
    ELSE self.name # other.name /\ str_le(self.name, other.name)

\* Mountain.__le__: None (false) when self is the harder one
Mountain_le(self, other) ==
    IF self.difficulty_level < other.difficulty_level THEN TRUE
    ELSE IF self.difficulty_level = other.difficulty_level
    THEN str_le(self.name, other.name)
    ELSE FALSE

\* algorithms.mergesort.merge on lists of mountains
RECURSIVE merge_mountains(_, _)
merge_mountains(l1, l2) ==
    IF l1 = <<>> THEN l2
    ELSE IF l2 = <<>> THEN l1
    ELSE IF Mountain_le(Head(l1), Head(l2))
    THEN <<Head(l1)>> \o merge_mountains(Tail(l1), l2)
    ELSE <<Head(l2)>> \o merge_mountains(l1, Tail(l2))

\* algorithms.mergesort.mergesort on a list of mountains
RECURSIVE mergesort_mountains(_)
mergesort_mountains(l) ==
    IF Len(l) <= 1 THEN l
    ELSE LET break_index == (Len(l) + 1) \div 2
         IN  merge_mountains(mergesort_mountains(SubSeq(l, 1, break_index)),
                             mergesort_mountains(SubSeq(l, break_index + 1, Len(l))))

\* add_mountains that merges the list as it is given
add_mountains_unsorted(self_mountain_list, mountains) ==
    merge_mountains(self_mountain_list, mountains)

\* self.add_mountains(mountains): self.mountain_list after the call
MountainOrganiser_add_mountains(self_mountain_list, mountains) ==
    LET sorted_mountain_list == mergesort_mountains(mountains)
    IN  merge_mountains(self_mountain_list, sorted_mountain_list)

\* how often a list holds a mountain
TimesIn(list, mountain) == Cardinality({ i \in 1..Len(list) : list[i] = mountain })

\* the lists add_mountains is called with
AddedLists == UNION { [1..n -> OrganisedMountains] : n \in 0..3 }

InitOrganiser ==
    /\ mountain_list = <<>>
    /\ added = [mountain \in OrganisedMountains |-> 0]
    /\ olast = <<>>
    /\ external_table_sizes = <<>> /\ internal_table_sizes = <<>>
    /\ size_index = 0 /\ external_table_array = <<>> /\ external_table_length = 0
    /\ tables = <<>> /\ keys1 = {} /\ keys2 = {} /\ shadow = <<>> /\ last = <<>>
    /\ iht = <<>> /\ ikeys = {} /\ ishadow = <<>> /\ ilast = <<>>
    /\ tstore = <<>> /\ treceiver = <<>> /\ tlast = <<>>
    /\ manager = <<>> /\ mlast = <<>>
    /\ NoWalk

\* organiser.add_mountains(mountains)
AddMountains(mountains) ==
    /\ Len(mountain_list) + Len(mountains) <= MaxAdds
    /\ mountain_list' = MountainOrganiser_add_mountains(mountain_list, mountains)
    /\ added' = [mountain \in OrganisedMountains |->
                     added[mountain] + TimesIn(mountains, mountain)]
    /\ olast' = mountains
    /\ UNCHANGED << dkt_vars, iht_vars, trail_vars, mm_vars, walk_vars >>

NextOrganiser == \E mountains \in AddedLists : AddMountains(mountains)

SpecOrganiser == InitOrganiser /\ [][NextOrganiser]_vars

\* a comes before b, or they tie: lower level, or equal levels and the name
\* of a not after that of b in the order of strings
InOrder(a, b) ==
    \/ a.difficulty_level < b.difficulty_level
    \/ /\ a.difficulty_level = b.difficulty_level
       /\ a.name = b.name \/ LexLess(a.name, b.name)

\* C37: after any sequence of add_mountains calls mountain_list holds every
\* mountain as many times as it was added and is sorted by ascending
\* difficulty level, names in lexicographic order at equal levels.
C37_MountainListSorted ==
    /\ \A mountain \in OrganisedMountains :
          Cardinality({ i \in 1..Len(mountain_list) : mountain_list[i] = mountain })
              = added[mountain]
    /\ \A i, j \in 1..Len(mountain_list) :
          i < j => InOrder(mountain_list[i], mountain_list[j])

\* a call has merged a list of two given out of order into a list of two
\* that already held one of its mountains, with two names at the same level
C37_Witness ==
    /\ Len(mountain_list) = 4
    /\ Len(olast) = 2 /\ Mountain_lt(olast[2], olast[1])
    /\ added[olast[1]] >= 2
    /\ \E i \in 1..3 : mountain_list[i] = mountain_list[i + 1]
    /\ \E i \in 1..3 :
          /\ mountain_list[i].difficulty_level = mountain_list[i + 1].difficulty_level
          /\ mountain_list[i].name # mountain_list[i + 1].name

====
